---- MODULE Spec2Model ----
(***************************************************************************)
(* Model of the SavAchuNotebook retrieval pipeline and its caches.         *)
(*                                                                         *)
(*   SpecQuery    one user message answered by process_user_message:       *)
(*                EnhancedRAGAgent.generate_enhanced_rag_response when the *)
(*                agent exists, AIHandler.StrictRetrievalQA.__call__       *)
(*                otherwise.                                               *)
(***************************************************************************)
EXTENDS Integers, Sequences, FiniteSets, TLC

VARIABLES
    \* ---- one query (SpecQuery) ----
    question,      \* the user's question, a text
    retrieved,     \* what the vector store does for it: the chunks, or it raises
    session,       \* rag_agent / has_document / vector_store / web_search_manager
    wikiOutcome,   \* what search_wikipedia does for this query
    webOutcome,    \* what search_duckduckgo does for this query
    pc,            \* position of the handler
    stages,        \* the stages the query has gone through, in order
    llmCalls,      \* every language-model invocation: [source, context]
    context,       \* StrictRetrievalQA: the validated context
    draft,         \* StrictRetrievalQA: the extracted model answer
    result,        \* what the user gets
    consulted,     \* EnhancedRAGAgent: the sources queried, in order
    \* ---- VectorStoreCache (SpecCache, SpecCacheRace) ----
    cache,         \* self.cache: key -> vector store
    access_order,  \* self.access_order
    max_size,      \* self.max_size
    clock,         \* number of cache operations so far
    lastAccess,    \* key -> clock of its latest get hit or put
    lastOp,        \* the latest completed operation and what it did
    thread,        \* SpecCacheRace: each thread's operation and position
    \* ---- durable tier and index builds (SpecDurable) ----
    enabled,       \* VectorCacheManager.enabled: Redis is configured and answers
    redis,         \* the Redis store: key -> [value, expires]
    now,           \* time in seconds
    vector_stores, \* the vector_stores table: chat_id -> [text, index]
    builds,        \* number of vector stores built (embedding runs) so far
    worker,        \* each session's call of get_cached_vector_store
    written,       \* key -> [value, at] of its latest successful setex
    lastCall,      \* the durable-tier read or index build just made, if any
    ui,            \* st.session_state of the browser session: chat and vectorstore
    \* ---- DocumentProcessor.create_chunks (SpecChunks) ----
    source_text,   \* the text create_chunks is called with
    split_raises,  \* whether text_splitter.split_text raises for it
    raw_chunks,    \* what text_splitter.split_text returns for it otherwise
    max_chunks,    \* AIConfig.MAX_CHUNKS
    float_ties,    \* how the float sums of two equal scores with different terms compare
    quality_chunks, \* what the latest create_chunks call returned, once one has
    earlier_chunks, \* what the call before it returned
    \* ---- the SQLite database (SpecDatabase) ----
    chats,         \* the chats table: id -> row
    messages,      \* the messages table, in rowid order
    documents,     \* the documents table: chat_id -> row
    foreign_keys,  \* whether this SQLite build enforces foreign keys by default
    next_chat,     \* number of chats created so far
    next_message,  \* number of messages inserted so far
    lastDb,        \* the repository call just made and what it returned
    \* ---- one browser session (SpecSession) ----
    rag_agent,     \* MessageHandlers.rag_agent: None or the agent and its vector_store
    session_state, \* st.session_state: current_chat_id, vectorstore, conversation, processing
    upload         \* position of process_document_upload

queryVars == <<question, retrieved, session, wikiOutcome, webOutcome, pc,
               stages, llmCalls, context, draft, result, consulted>>

cacheVars == <<cache, access_order, max_size, clock, lastAccess, lastOp, thread>>

durableVars == <<enabled, redis, now, vector_stores, builds, worker, written,
                 lastCall, ui>>

chunkVars == <<source_text, split_raises, raw_chunks, max_chunks, float_ties,
               quality_chunks, earlier_chunks>>

dbVars == <<chats, messages, documents, foreign_keys, next_chat, next_message,
            lastDb>>

sessionVars == <<rag_agent, session_state, upload>>

otherThanQuery == <<cacheVars, durableVars, chunkVars, dbVars, sessionVars>>

otherThanCache == <<queryVars, durableVars, chunkVars, dbVars, sessionVars>>

otherThanDurable == <<queryVars, cacheVars, chunkVars, dbVars, sessionVars>>

otherThanChunks == <<queryVars, cacheVars, durableVars, dbVars, sessionVars>>

\* the durable-tier variables other than the vector_stores table
cacheTierVars == <<enabled, redis, now, builds, worker, written, lastCall>>

otherThanDb == <<queryVars, cacheVars, chunkVars, sessionVars, cacheTierVars, ui>>

vars == <<queryVars, cacheVars, durableVars, chunkVars, dbVars, sessionVars>>

----------------------------------------------------------------------------
(* Text.  A text is a sequence of tokens; consecutive tokens are separated *)
(* by one blank.  The token WS is one extra whitespace character, so that  *)
(* strip() and split() have something to remove.                           *)

WS == " "

None == "None"

RECURSIVE SumLen(_)
SumLen(t) == IF t = <<>> THEN 0 ELSE Len(Head(t)) + SumLen(Tail(t))

\* len(text): the tokens' characters plus the separating blanks
TextLen(t) == IF t = <<>> THEN 0 ELSE SumLen(t) + Len(t) - 1

\* str.lower(), token by token
LowerTok(w) ==
    CASE w = "The" -> "the"
      [] w = "Eiffel" -> "eiffel"
      [] w = "Tower" -> "tower"
      [] w = "Tower?" -> "tower?"
      [] w = "Paris" -> "paris"
      [] w = "When" -> "when"
      [] w = "What" -> "what"
      [] w = "Google" -> "google"
      [] w = "Quantum" -> "quantum"
      [] w = "Answer:" -> "answer:"
      [] w = "NOT_FOUND" -> "not_found"
      [] w = "Error" -> "error"
      [] w = "Wikipedia" -> "wikipedia"
      [] w = "Web" -> "web"
      [] w = "No" -> "no"
      [] w = "Title:" -> "title:"
      [] w = "[Previous" -> "[previous"
      [] OTHER -> w

Lower(t) == [i \in 1..Len(t) |-> LowerTok(t[i])]

\* str.split(): the set of whitespace-separated words
Words(t) == {t[i] : i \in {j \in 1..Len(t) : t[j] # WS}}

RECURSIVE LStrip(_)
LStrip(t) == IF t # <<>> /\ Head(t) = WS THEN LStrip(Tail(t)) ELSE t

RECURSIVE RStrip(_)
RStrip(t) ==
    IF t # <<>> /\ t[Len(t)] = WS THEN RStrip(SubSeq(t, 1, Len(t) - 1)) ELSE t

\* str.strip()
Strip(t) == RStrip(LStrip(t))

\* `phrase in text`: the phrase occurs as a contiguous run of the text
Occurs(phrase, t) ==
    \E i \in 1..(Len(t) - Len(phrase) + 1) :
        SubSeq(t, i, i + Len(phrase) - 1) = phrase

----------------------------------------------------------------------------
(* A retrieved chunk: page_content is `text` followed by `trail` whitespace *)
(* characters (chunks differ in size; only the words matter to the gate).  *)

ChunkLen(c) == TextLen(c.text) + c.trail

\* ai_handler.py:127
CommonWords ==
    {"the", "is", "at", "which", "on", "a", "an", "and", "or", "but", "in",
     "with", "to", "for", "of", "as", "by"}

Keywords(t) == Words(Lower(t)) \ CommonWords

\* relevance_score > 0.2, with relevance_score = len(overlap) / len(question_keywords):
\* overlap / n > 1/5 exactly when 5 * overlap > n
ScoreAboveThreshold(overlap, n) == 5 * overlap > n

\* AIHandler._verify_context_relevance
VerifyContextRelevance(ctx, q) ==
    IF Strip(ctx) = <<>>
    THEN FALSE
    ELSE LET question_keywords == Keywords(q)
             context_keywords == Keywords(ctx)
             overlap == question_keywords \cap context_keywords
         IN  IF question_keywords # {}
             THEN ScoreAboveThreshold(Cardinality(overlap),
                                      Cardinality(question_keywords))
             ELSE FALSE

MaxContextChunks == 3
MaxContextChars == 2000
SeparatorLen == 2
Fragment == "<cut>"

\* text[:room] for a text that starts `room` characters before the cut: the
\* tokens that fit, and Fragment for a token the cut goes through
RECURSIVE KeepText(_, _)
KeepText(t, room) ==
    IF t = <<>> \/ room <= 0 THEN <<>>
    ELSE IF Len(Head(t)) <= room
         THEN <<Head(t)>> \o KeepText(Tail(t), room - Len(Head(t)) - 1)
         ELSE <<Fragment>>

RECURSIVE JoinLen(_)
JoinLen(cs) ==
    IF cs = <<>> THEN 0
    ELSE ChunkLen(Head(cs))
         + (IF Len(cs) > 1 THEN SeparatorLen ELSE 0) + JoinLen(Tail(cs))

\* the chunk texts of "\n\n".join(cs)[:room]
RECURSIVE KeepParts(_, _)
KeepParts(cs, room) ==
    IF cs = <<>> \/ room <= 0 THEN <<>>
    ELSE <<KeepText(Head(cs).text, room)>>
         \o KeepParts(Tail(cs), room - ChunkLen(Head(cs)) - SeparatorLen)

EmptyContext == [parts |-> <<>>, len |-> 0, marked |-> FALSE]

\* A context builder that keeps every chunk, relevant or not.
MutBuildUnfiltered(ds, q) ==
    [parts |-> [i \in 1..Len(ds) |-> ds[i].text], len |-> JoinLen(ds),
     marked |-> FALSE]

\* AIHandler.StrictRetrievalQA._build_validated_context
BuildValidatedContext(ds, q) ==
    LET relevant_chunks ==
            SelectSeq(ds, LAMBDA c : VerifyContextRelevance(c.text, q))
        top == SubSeq(relevant_chunks, 1,
                      IF Len(relevant_chunks) < MaxContextChunks
                      THEN Len(relevant_chunks) ELSE MaxContextChunks)
        n == JoinLen(top)
    IN  IF n > MaxContextChars
        THEN [parts |-> KeepParts(top, MaxContextChars),
              len |-> MaxContextChars + 3, marked |-> TRUE]
        ELSE [parts |-> [i \in 1..Len(top) |-> top[i].text],
              len |-> n, marked |-> FALSE]

\* `indicator in context_lower`: the joined chunks are separated by "\n\n",
\* so a phrase occurs in the context when it occurs in one part
OccursInContext(phrase, ctx) ==
    \E i \in 1..Len(ctx.parts) : Occurs(phrase, Lower(ctx.parts[i]))

\* ai_handler.py:246-251
HallucinationIndicators ==
    << <<"quantum", "computing">>,
       <<"google">>,
       <<"artificial", "intelligence", "can", "be", "built">>,
       <<"they", "have", "demonstrated">> >>

\* An indicator check that looks for the first phrase of the list only.
MutIndicatorsFirstOnly(answer, ctx) ==
    /\ Occurs(HallucinationIndicators[1], Lower(answer))
    /\ ~OccursInContext(HallucinationIndicators[1], ctx)

\* AIHandler.StrictRetrievalQA._contains_hallucination_indicators
ContainsHallucinationIndicators(answer, ctx) ==
    \E k \in 1..Len(HallucinationIndicators) :
        /\ Occurs(HallucinationIndicators[k], Lower(answer))
        /\ ~OccursInContext(HallucinationIndicators[k], ctx)

Refusal(q) == [kind |-> "refusal", question |-> q]

Answer(text) == [kind |-> "answer", text |-> text, source |-> "Document"]

\* AIHandler.StrictRetrievalQA._verify_and_correct_response.  The handler of
\* lines 231-233 is not reachable from __call__: the check applies str.lower,
\* str.split and `in` to two str values, and none of these raises.
VerifyAndCorrectResponse(answer, ctx, q) ==
    IF ContainsHallucinationIndicators(answer, ctx)
    THEN Refusal(q)
    ELSE Answer(answer)

----------------------------------------------------------------------------
(* The inputs of one query. *)

MaxDocs == 2

Questions ==
    { <<"When", "was", "the", "Eiffel", "Tower", "completed">>,
      <<"What", "color", "is", "the", "Eiffel", "Tower?">>,
      <<"is", WS, "the">>,
      <<"color">>,
      <<"quantum", "computing", "google">> }

ChunkTexts ==
    { <<"The", "Eiffel", "Tower", "is", "in", "Paris">>,
      <<"Tower", "completed", "in", "1889">>,
      <<"Google", "quantum", "computing">>,
      <<WS>> }

Trails == {0, 2100}

Chunks == [text : ChunkTexts, trail : Trails]

DocSeqs == UNION {[1..n -> Chunks] : n \in 0..MaxDocs}

\* what the language model may send back
LLMResponses ==
    { <<"completed", "in", "1889">>,
      <<"NOT_FOUND">>,
      <<WS, "NOT_FOUND", WS>>,
      <<"Answer:", "NOT_FOUND">>,
      <<"Google", "quantum", "computing">>,
      <<"they", "have", "demonstrated">>,
      <<>> }

\* a call of the model: it raises, or it returns a text
LLMOutcomes ==
    {[raises |-> TRUE, text |-> <<>>]}
        \cup {[raises |-> FALSE, text |-> t] : t \in LLMResponses}

\* a similarity search: it raises, or it returns the chunks found
Retrievals ==
    {[raises |-> TRUE, docs |-> <<>>]}
        \cup {[raises |-> FALSE, docs |-> d] : d \in DocSeqs}

SearchOutcomes ==
    { [kind |-> "none"], [kind |-> "raises"],
      [kind |-> "results", text |-> <<"Eiffel", "Tower", "Paris">>],
      [kind |-> "results", text |-> <<"Error", "Tower">>] }

Sessions ==
    [rag_agent : BOOLEAN, has_document : BOOLEAN,
     agent_vector_store : BOOLEAN, web_search_manager : BOOLEAN]

Sentinel == <<"NOT_FOUND">>

\* tokens that end in '?', '.' or '!'
EndsSentence(w) == w \in {"Tower?", "completed?", "color?"}

\* AIHandler._clean_question
CleanQuestion(q) ==
    LET joined == SelectSeq(q, LAMBDA w : w # WS)
    IN  IF joined # <<>> /\ ~EndsSentence(joined[Len(joined)])
        THEN [joined EXCEPT ![Len(joined)] = @ \o "?"]
        ELSE joined

\* EnhancedRAGAgent._search_wikipedia and _search_web: the string they return
SearchText(label, outcome) ==
    CASE outcome.kind = "none" -> <<"No", label, "results", "found">>
      [] outcome.kind = "raises" -> <<"Error", "searching", label>>
      [] OTHER -> <<label, "results:", "Title:">> \o outcome.text

\* rag_agent.py:356 and 364: the source is used when its string is neither the
\* no-results message nor contains "Error"
SearchUsable(label, text) ==
    /\ text # <<>>
    /\ ~Occurs(<<"No", label, "results">>, text)
    /\ ~Occurs(<<"Error">>, text)

\* str.replace("Wikipedia results:\n", "")
DropHeader(label, text) ==
    IF Len(text) >= 2 /\ SubSeq(text, 1, 2) = <<label, "results:">>
    THEN SubSeq(text, 3, Len(text)) ELSE text

\* EnhancedRAGAgent._get_document_context: every retrieved chunk, joined
DocumentContext(r) ==
    IF r.raises
    THEN EmptyContext
    ELSE [parts |-> [i \in 1..Len(r.docs) |-> r.docs[i].text],
          len |-> JoinLen(r.docs), marked |-> FALSE]

TextContext(t) == [parts |-> <<t>>, len |-> TextLen(t), marked |-> FALSE]

\* rag_agent.py:349, 359, 367: `strict and strict != "NOT_FOUND"`
IsStrictAnswer(strict) == strict # <<>> /\ strict # Sentinel

\* EnhancedRAGAgent._strict_answer, given what the model does when called:
\* no call for an empty context, NOT_FOUND when the call raises
StrictAnswer(ctx, outcome) ==
    IF ctx.len = 0 THEN Sentinel
    ELSE IF outcome.raises THEN Sentinel
    ELSE Strip(outcome.text)

StrictCalls(source, ctx) ==
    IF ctx.len = 0 THEN <<>> ELSE <<[source |-> source, context |-> ctx]>>

CouldNotLocate == [kind |-> "could_not_locate"]

\* the response credits the document whatever source answered
MutSourcedDocument(strict, source) ==
    [kind |-> "answer", text |-> strict, source |-> "Document"]

Sourced(strict, source) == [kind |-> "answer", text |-> strict, source |-> source]

----------------------------------------------------------------------------
(* One user message: MessageHandlers.process_user_message. *)

NoResult == [kind |-> "pending"]

QueryIdle ==
    /\ question = <<>>
    /\ session = [rag_agent |-> FALSE, has_document |-> FALSE,
                  agent_vector_store |-> FALSE, web_search_manager |-> FALSE]
    /\ retrieved = [raises |-> FALSE, docs |-> <<>>]
    /\ wikiOutcome = [kind |-> "none"]
    /\ webOutcome = [kind |-> "none"]
    /\ pc = "idle"
    /\ stages = <<>>
    /\ llmCalls = <<>>
    /\ context = [parts |-> <<>>, len |-> 0, marked |-> FALSE]
    /\ draft = <<>>
    /\ result = [kind |-> "pending"]
    /\ consulted = <<>>

ChunksIdle ==
    /\ source_text = <<>>
    /\ split_raises = FALSE
    /\ raw_chunks = <<>>
    /\ max_chunks = 1
    /\ float_ties = "equal"
    /\ quality_chunks = [found |-> FALSE]
    /\ earlier_chunks = [found |-> FALSE]

DbIdle ==
    /\ chats = <<>>
    /\ messages = <<>>
    /\ documents = <<>>
    /\ foreign_keys = FALSE
    /\ next_chat = 0
    /\ next_message = 0
    /\ lastDb = [op |-> "none"]

SessionIdle ==
    /\ rag_agent = [found |-> FALSE]
    /\ session_state = [found |-> FALSE]
    /\ upload = "idle"

DurableIdle ==
    /\ enabled = FALSE
    /\ redis = <<>>
    /\ now = 0
    /\ vector_stores = <<>>
    /\ builds = 0
    /\ worker = <<>>
    /\ written = <<>>
    /\ lastCall = [op |-> "none"]
    /\ ui = [current_chat_id |-> "None", vectorstore |-> "None"]

CacheIdle ==
    /\ cache = <<>>
    /\ access_order = <<>>
    /\ max_size = 0
    /\ clock = 0
    /\ lastAccess = <<>>
    /\ lastOp = [op |-> "none"]
    /\ thread = <<>>

QueryInit ==
    /\ question \in Questions
    /\ session \in Sessions
    /\ retrieved \in Retrievals
    /\ wikiOutcome \in SearchOutcomes
    /\ webOutcome \in SearchOutcomes
    \* inputs the handler never reads are held fixed
    /\ (~session.has_document \/ (session.rag_agent /\ ~session.agent_vector_store))
           => retrieved = [raises |-> FALSE, docs |-> <<>>]
    /\ (~session.rag_agent \/ ~session.web_search_manager)
           => (wikiOutcome = [kind |-> "none"] /\ webOutcome = [kind |-> "none"])
    /\ ~session.rag_agent => (~session.agent_vector_store /\ ~session.web_search_manager)
    /\ pc = "start"
    /\ stages = <<>>
    /\ llmCalls = <<>>
    /\ context = EmptyContext
    /\ draft = <<>>
    /\ result = NoResult
    /\ consulted = <<>>
    /\ CacheIdle
    /\ DurableIdle
    /\ ChunksIdle
    /\ DbIdle
    /\ SessionIdle

\* message_handlers.py:131-171: which pipeline answers
ProcessUserMessage ==
    /\ pc = "start"
    /\ IF session.rag_agent
       THEN pc' = "rag_document" /\ UNCHANGED <<stages, result, question>>
       ELSE IF session.has_document
            THEN \* AIHandler.generate_response: _clean_question, then the chain
                 /\ pc' = "RECEIVED"
                 /\ question' = CleanQuestion(question)
                 /\ stages' = <<"RECEIVED">>
                 /\ UNCHANGED result
            ELSE /\ pc' = "done"
                 /\ result' = [kind |-> "guidance"]
                 /\ UNCHANGED <<stages, question>>
    /\ UNCHANGED <<retrieved, session, wikiOutcome, webOutcome, llmCalls,
                   context, draft, consulted>>
    /\ UNCHANGED otherThanQuery

\* ai_handler.py:151: retriever.get_relevant_documents; an exception leaves
\* __call__ and generate_response (304-306) answers with its apology
QARetrieve ==
    /\ pc = "RECEIVED"
    /\ IF retrieved.raises
       THEN /\ pc' = "RAISED"
            /\ result' = [kind |-> "error"]
            /\ UNCHANGED stages
       ELSE /\ pc' = "RETRIEVED"
            /\ stages' = Append(stages, "RETRIEVED")
            /\ UNCHANGED result
    /\ UNCHANGED <<question, retrieved, session, wikiOutcome, webOutcome,
                   llmCalls, context, draft, consulted>>
    /\ UNCHANGED otherThanQuery

\* ai_handler.py:153-166: no documents, or no chunk passed the gate
QAGate ==
    /\ pc = "RETRIEVED"
    /\ LET ctx == IF retrieved.docs = <<>> THEN EmptyContext
                  ELSE BuildValidatedContext(retrieved.docs, question)
       IN  IF ctx.len = 0
           THEN /\ pc' = "NOT_FOUND"
                /\ stages' = stages \o <<"GATED_FAIL", "NOT_FOUND">>
                /\ result' = [kind |-> "not_found"]
                /\ UNCHANGED context
           ELSE /\ pc' = "GATED_PASS"
                /\ stages' = Append(stages, "GATED_PASS")
                /\ context' = ctx
                /\ UNCHANGED result
    /\ UNCHANGED <<question, retrieved, session, wikiOutcome, webOutcome,
                   llmCalls, draft, consulted>>
    /\ UNCHANGED otherThanQuery

\* ai_handler.py:169-177 and 184-189: the model call and _extract_text
QAGenerate ==
    /\ pc = "GATED_PASS"
    /\ llmCalls' = Append(llmCalls, [source |-> "Document", context |-> context])
    /\ \E outcome \in LLMOutcomes :
          IF outcome.raises
          THEN /\ pc' = "ERROR"
               /\ stages' = Append(stages, "ERROR")
               /\ result' = [kind |-> "error"]
               /\ UNCHANGED draft
          ELSE /\ pc' = "GENERATED"
               /\ stages' = Append(stages, "GENERATED")
               /\ draft' = Strip(outcome.text)
               /\ UNCHANGED result
    /\ UNCHANGED <<question, retrieved, session, wikiOutcome, webOutcome, context,
                   consulted>>
    /\ UNCHANGED otherThanQuery

\* ai_handler.py:180-182: _verify_and_correct_response and the return
QAVerify ==
    /\ pc = "GENERATED"
    /\ LET verified_answer == VerifyAndCorrectResponse(draft, context, question)
       IN  /\ result' = verified_answer
           /\ IF verified_answer.kind = "refusal"
              THEN /\ pc' = "REWORDED_REFUSAL"
                   /\ stages' = stages \o <<"VERIFIED_FLAGGED", "REWORDED_REFUSAL">>
              ELSE /\ pc' = "RETURNED"
                   /\ stages' = stages \o <<"VERIFIED_OK", "RETURNED">>
    /\ UNCHANGED <<question, retrieved, session, wikiOutcome, webOutcome,
                   llmCalls, context, draft, consulted>>
    /\ UNCHANGED otherThanQuery

\* rag_agent.py:346-350: strict extraction from the document
RAGDocument ==
    /\ pc = "rag_document"
    /\ IF session.has_document /\ session.agent_vector_store
       THEN LET doc_context == DocumentContext(retrieved)
            IN  /\ consulted' = Append(consulted, "Document")
                /\ llmCalls' = llmCalls \o StrictCalls("Document", doc_context)
                /\ \E outcome \in LLMOutcomes :
                      LET strict == StrictAnswer(doc_context, outcome)
                      IN  IF IsStrictAnswer(strict)
                          THEN /\ pc' = "done"
                               /\ result' = Sourced(strict, "Document")
                          ELSE /\ pc' = "rag_wikipedia"
                               /\ UNCHANGED result
       ELSE /\ pc' = "rag_wikipedia"
            /\ UNCHANGED <<llmCalls, result, consulted>>
    /\ UNCHANGED <<question, retrieved, session, wikiOutcome, webOutcome,
                   stages, context, draft>>
    /\ UNCHANGED otherThanQuery

\* rag_agent.py:353-360 and 369-373
RAGWikipedia ==
    /\ pc = "rag_wikipedia"
    /\ IF session.web_search_manager
       THEN LET wiki_results == SearchText("Wikipedia", wikiOutcome)
                wiki_text == TextContext(DropHeader("Wikipedia", wiki_results))
            IN  /\ consulted' = Append(consulted, "Wikipedia")
                /\ IF SearchUsable("Wikipedia", wiki_results)
                   THEN /\ llmCalls' = llmCalls \o StrictCalls("Wikipedia", wiki_text)
                        /\ \E outcome \in LLMOutcomes :
                              LET strict == StrictAnswer(wiki_text, outcome)
                              IN  IF IsStrictAnswer(strict)
                                  THEN /\ pc' = "done"
                                       /\ result' = Sourced(strict, "Wikipedia")
                                  ELSE /\ pc' = "rag_web"
                                       /\ UNCHANGED result
                   ELSE /\ pc' = "rag_web"
                        /\ UNCHANGED <<llmCalls, result>>
       ELSE /\ pc' = "done"
            /\ result' = CouldNotLocate
            /\ UNCHANGED <<llmCalls, consulted>>
    /\ UNCHANGED <<question, retrieved, session, wikiOutcome, webOutcome,
                   stages, context, draft>>
    /\ UNCHANGED otherThanQuery

\* rag_agent.py:362-373
RAGWeb ==
    /\ pc = "rag_web"
    /\ pc' = "done"
    /\ consulted' = Append(consulted, "Web")
    /\ LET web_results == SearchText("Web", webOutcome)
           web_text == TextContext(DropHeader("Web", web_results))
       IN  IF SearchUsable("Web", web_results)
           THEN /\ llmCalls' = llmCalls \o StrictCalls("Web", web_text)
                /\ \E outcome \in LLMOutcomes :
                      LET strict == StrictAnswer(web_text, outcome)
                      IN  result' = IF IsStrictAnswer(strict)
                                    THEN Sourced(strict, "Web")
                                    ELSE CouldNotLocate
           ELSE /\ result' = CouldNotLocate
                /\ UNCHANGED llmCalls
    /\ UNCHANGED <<question, retrieved, session, wikiOutcome, webOutcome,
                   stages, context, draft>>
    /\ UNCHANGED otherThanQuery

QueryNext ==
    \/ ProcessUserMessage
    \/ QARetrieve
    \/ QAGate
    \/ QAGenerate
    \/ QAVerify
    \/ RAGDocument
    \/ RAGWikipedia
    \/ RAGWeb

SpecQuery == QueryInit /\ [][QueryNext]_vars

----------------------------------------------------------------------------
(* Claims about one query. *)

QAPath == ~session.rag_agent /\ session.has_document

RAGPath == session.rag_agent

DocumentLoaded ==
    /\ session.has_document
    /\ session.rag_agent => session.agent_vector_store

QueryEnded == pc \in {"done", "NOT_FOUND", "REWORDED_REFUSAL", "RETURNED", "ERROR", "RAISED"}

\* the question and a text share no keyword
NoCommonKeyword(t) == Keywords(question) \cap Keywords(t) = {}

ZeroOverlap ==
    /\ ~retrieved.raises
    /\ \A i \in 1..Len(retrieved.docs) : NoCommonKeyword(retrieved.docs[i].text)

DocumentCalls == {i \in 1..Len(llmCalls) : llmCalls[i].source = "Document"}

\* C1: a query on a loaded document whose keywords share nothing with any
\* retrieved chunk gets an empty accepted context (the model is not called on
\* document text) and no answer attributed to the document.
C1_ZeroOverlapNotFound ==
    (DocumentLoaded /\ ZeroOverlap) =>
        /\ DocumentCalls = {}
        /\ ~(result.kind = "answer" /\ result.source = "Document")

\* the candidates of an evidence source
Candidates(source) ==
    CASE source = "Document" ->
             {retrieved.docs[i].text : i \in 1..Len(retrieved.docs)}
      [] source = "Wikipedia" ->
             {DropHeader("Wikipedia", SearchText("Wikipedia", wikiOutcome))}
      [] OTHER -> {DropHeader("Web", SearchText("Web", webOutcome))}

PassesGate(t) ==
    /\ Strip(t) # <<>>
    /\ Keywords(question) # {}
    /\ 5 * Cardinality(Keywords(question) \cap Keywords(t))
           > Cardinality(Keywords(question))

\* C2: every invocation of the language model, for every evidence source,
\* is on a non-empty context and after a candidate of that source passed the
\* relevance gate.
C2_ModelOnlyAfterGate ==
    \A i \in 1..Len(llmCalls) :
        /\ llmCalls[i].context.len > 0
        /\ \E t \in Candidates(llmCalls[i].source) : PassesGate(t)

ListedPaths ==
    { <<"RECEIVED", "RETRIEVED", "GATED_FAIL", "NOT_FOUND">>,
      <<"RECEIVED", "RETRIEVED", "GATED_PASS", "GENERATED", "VERIFIED_OK", "RETURNED">>,
      <<"RECEIVED", "RETRIEVED", "GATED_PASS", "GENERATED", "VERIFIED_FLAGGED",
        "REWORDED_REFUSAL">> }

ErrorPath == <<"RECEIVED", "RETRIEVED", "GATED_PASS", "ERROR">>

IsPrefix(a, b) == Len(a) <= Len(b) /\ SubSeq(b, 1, Len(a)) = a

AlongPaths(paths) == \E p \in paths : IsPrefix(stages, p)

Before(a, b) ==
    \A j \in 1..Len(stages) :
        stages[j] = b => \E i \in 1..(j - 1) : stages[i] = a

SomeChunkPasses ==
    \E i \in 1..Len(retrieved.docs) : PassesGate(retrieved.docs[i].text)

\* C3 as stated: the stages follow the listed transitions and every execution
\* of __call__ ends in NOT_FOUND, REWORDED_REFUSAL or RETURNED.
C3_ListedTerminalsOnly ==
    QAPath =>
        /\ AlongPaths(ListedPaths)
        /\ QueryEnded => pc \in {"NOT_FOUND", "REWORDED_REFUSAL", "RETURNED"}

\* C3, with the error endings: the stages follow the listed transitions or end in ERROR after
\* a passed gate (the model call raised); an execution ends in NOT_FOUND,
\* REWORDED_REFUSAL, RETURNED or ERROR, or leaves __call__ by the exception of
\* the retriever before RETRIEVED; GENERATED is never reached after a failed
\* gate and RETURNED never without VERIFIED_OK before it.
C3_StagesAndTerminals ==
    QAPath =>
        /\ AlongPaths(ListedPaths \cup {ErrorPath})
        /\ ~ENABLED QueryNext =>
               \/ pc \in {"NOT_FOUND", "REWORDED_REFUSAL", "RETURNED", "ERROR"}
                  /\ stages[Len(stages)] = pc
               \/ pc = "RAISED" /\ stages = <<"RECEIVED">> /\ retrieved.raises
        /\ pc \in {"NOT_FOUND", "REWORDED_REFUSAL", "RETURNED", "ERROR"}
               => ~ENABLED QueryNext
        /\ ~SomeChunkPasses => \A i \in 1..Len(stages) : stages[i] # "GENERATED"
        /\ Before("VERIFIED_OK", "RETURNED")
        /\ Before("GATED_PASS", "GENERATED")

C3_Witness ==
    QAPath /\ pc = "ERROR" /\ stages = ErrorPath /\ result.kind = "error"

FabricationPhrases ==
    { <<"quantum", "computing">>, <<"google">>,
      <<"artificial", "intelligence", "can", "be", "built">>,
      <<"they", "have", "demonstrated">> }

\* the phrase occurs in the text, letter case aside
Mentions(t, phrase) == Occurs(phrase, Lower(t))

Fabricates(t) ==
    \E ph \in FabricationPhrases :
        /\ Mentions(t, ph)
        /\ \A i \in 1..Len(context.parts) : ~Mentions(context.parts[i], ph)

\* C4: once the draft has been verified, a draft that contains (letter case
\* aside) a fabrication-indicator phrase absent from the accepted context is
\* answered by the refusal message, and what is returned is never the draft.
C4_FlaggedDraftWithheld ==
    (QAPath /\ pc \in {"RETURNED", "REWORDED_REFUSAL"}) =>
        /\ Fabricates(draft) => (result.kind = "refusal" /\ pc = "REWORDED_REFUSAL")
        /\ result.kind = "answer" => (result.text = draft /\ ~Fabricates(result.text))

C4_Witness ==
    /\ QAPath /\ pc = "REWORDED_REFUSAL" /\ result.kind = "refusal"
    /\ Fabricates(draft)
    /\ context.marked

\* C5: in generate_enhanced_rag_response a model response that carries the
\* NOT_FOUND sentinel is never returned as an answer with a source.
C5_SentinelNeverReturned ==
    (RAGPath /\ result.kind = "answer") => ~Occurs(Sentinel, result.text)

----------------------------------------------------------------------------
(* VectorStoreCache (vector_store.py:178-227), one operation at a time.     *)

MaxCapacity == 2
MaxOps == 5

Keys == {"doc1", "doc2", "doc3", "doc4"}
Stores == {"vsA", "vsB"}

EmptyMap == [x \in {} |-> None]

\* self.cache[key] = value
MapSet(m, k, v) == [x \in DOMAIN m \cup {k} |-> IF x = k THEN v ELSE m[x]]

\* del self.cache[key]
MapDel(m, k) == [x \in DOMAIN m \ {k} |-> m[x]]

Has(o, k) == \E i \in 1..Len(o) : o[i] = k

\* list.remove(key): the first occurrence goes
RECURSIVE RemoveFirst(_, _)
RemoveFirst(o, k) ==
    IF o = <<>> THEN <<>>
    ELSE IF Head(o) = k THEN Tail(o)
    ELSE <<Head(o)>> \o RemoveFirst(Tail(o), k)

\* A read that leaves the access order as it was.
MutGetLeavesOrder(o, k) == o

\* A read that appends the key without taking it out of its old place.
MutTouchAppendOnly(o, k) == Append(o, k)

\* vector_store.py:192-193: move the key to the end of the access order
Touch(o, k) == Append(RemoveFirst(o, k), k)

\* vector_store.py:208-210: while len(self.cache) > self.max_size, pop the
\* head of the access order and delete it from the map
RECURSIVE EvictLoop(_, _, _)
EvictLoop(c, o, m) ==
    IF Cardinality(DOMAIN c) <= m
    THEN [cache |-> c, order |-> o, evicted |-> <<>>, error |-> None]
    ELSE IF o = <<>>
         THEN [cache |-> c, order |-> o, evicted |-> <<>>, error |-> "IndexError"]
         ELSE IF Head(o) \notin DOMAIN c
              THEN [cache |-> c, order |-> Tail(o), evicted |-> <<>>,
                    error |-> "KeyError"]
              ELSE LET rest == EvictLoop(MapDel(c, Head(o)), Tail(o), m)
                   IN  [rest EXCEPT !.evicted = <<Head(o)>> \o @]

CacheInit ==
    /\ cache = EmptyMap
    /\ access_order = <<>>
    /\ max_size \in 0..MaxCapacity
    /\ clock = 0
    /\ lastAccess = EmptyMap
    /\ lastOp = [op |-> "none"]
    /\ thread = <<>>
    /\ QueryIdle
    /\ DurableIdle
    /\ ChunksIdle
    /\ DbIdle
    /\ SessionIdle

\* VectorStoreCache.get
Get(k) ==
    /\ clock < MaxOps
    /\ clock' = clock + 1
    /\ IF k \in DOMAIN cache
       THEN /\ access_order' = Touch(access_order, k)
            /\ lastAccess' = MapSet(lastAccess, k, clock')
            /\ lastOp' = [op |-> "get", key |-> k, ret |-> cache[k]]
       ELSE /\ UNCHANGED <<access_order, lastAccess>>
            /\ lastOp' = [op |-> "get", key |-> k, ret |-> None]
    /\ UNCHANGED <<cache, max_size, thread>>
    /\ UNCHANGED otherThanCache

\* VectorStoreCache.put
Put(k, v) ==
    /\ clock < MaxOps
    /\ clock' = clock + 1
    /\ LET o1 == IF k \in DOMAIN cache THEN RemoveFirst(access_order, k)
                 ELSE access_order
           done == EvictLoop(MapSet(cache, k, v), Append(o1, k), max_size)
           gone == {done.evicted[i] : i \in 1..Len(done.evicted)}
       IN  /\ cache' = done.cache
           /\ access_order' = done.order
           /\ lastAccess' =
                  [x \in (DOMAIN lastAccess \cup {k}) \ gone |->
                      IF x = k THEN clock' ELSE lastAccess[x]]
           /\ lastOp' = [op |-> "put", key |-> k, value |-> v,
                         before |-> DOMAIN cache,
                         accessed |-> MapSet(lastAccess, k, clock'),
                         evicted |-> done.evicted, error |-> done.error]
    /\ UNCHANGED <<max_size, thread>>
    /\ UNCHANGED otherThanCache

\* VectorStoreCache.remove
Remove(k) ==
    /\ clock < MaxOps
    /\ clock' = clock + 1
    /\ IF k \in DOMAIN cache
       THEN /\ cache' = MapDel(cache, k)
            /\ access_order' = RemoveFirst(access_order, k)
            /\ lastAccess' = MapDel(lastAccess, k)
            /\ lastOp' = [op |-> "remove", key |-> k, ret |-> TRUE]
       ELSE /\ UNCHANGED <<cache, access_order, lastAccess>>
            /\ lastOp' = [op |-> "remove", key |-> k, ret |-> FALSE]
    /\ UNCHANGED <<max_size, thread>>
    /\ UNCHANGED otherThanCache

\* VectorStoreCache.clear
Clear ==
    /\ clock < MaxOps
    /\ clock' = clock + 1
    /\ cache' = EmptyMap
    /\ access_order' = <<>>
    /\ lastAccess' = EmptyMap
    /\ lastOp' = [op |-> "clear"]
    /\ UNCHANGED <<max_size, thread>>
    /\ UNCHANGED otherThanCache

CacheNext ==
    \/ \E k \in Keys : Get(k)
    \/ \E k \in Keys, v \in Stores : Put(k, v)
    \/ \E k \in Keys : Remove(k)
    \/ Clear

SpecCache == CacheInit /\ [][CacheNext]_vars

\* the entries present when the put decides what to evict
PresentAtPut == lastOp.before \cup {lastOp.key}

EvictedSet == {lastOp.evicted[i] : i \in 1..Len(lastOp.evicted)}

\* C8: a put that brings the number of entries above max_size evicts exactly
\* one entry, the one whose latest access (get hit or put) is the oldest among
\* the entries present; the entry just put is not the one evicted when
\* max_size >= 1; a put that stays within max_size evicts nothing.
C8_StrictLRU ==
    lastOp.op = "put" =>
        /\ lastOp.error = None
        /\ IF Cardinality(PresentAtPut) > max_size
           THEN /\ Len(lastOp.evicted) = 1
                /\ \A x \in PresentAtPut \ EvictedSet :
                       lastOp.accessed[lastOp.evicted[1]] < lastOp.accessed[x]
                /\ max_size >= 1 => lastOp.evicted[1] # lastOp.key
                /\ DOMAIN cache = PresentAtPut \ EvictedSet
           ELSE /\ lastOp.evicted = <<>>
                /\ DOMAIN cache = PresentAtPut

\* a put into a full cache of two evicted the older of the two
C8_Witness ==
    /\ lastOp.op = "put"
    /\ max_size = 2
    /\ Len(lastOp.evicted) = 1
    /\ lastOp.evicted[1] # lastOp.key
    /\ Cardinality(DOMAIN cache) = 2

\* the keys of the access order
OrderKeys == {access_order[i] : i \in 1..Len(access_order)}

\* C27: after every completed get, put, remove or clear the access order
\* holds exactly the keys of the cache, each once, and there are at most
\* max_size entries; a put of a key already present replaces its value and
\* evicts nothing.
C27_OrderMatchesCache ==
    /\ OrderKeys = DOMAIN cache
    /\ Len(access_order) = Cardinality(DOMAIN cache)
    /\ Cardinality(DOMAIN cache) <= max_size
    /\ (lastOp.op = "put" /\ lastOp.key \in lastOp.before) =>
          /\ lastOp.evicted = <<>>
          /\ DOMAIN cache = lastOp.before
          /\ cache[lastOp.key] = lastOp.value

\* a put replaced the value of a key that was present in a full cache
C27_Witness ==
    /\ lastOp.op = "put"
    /\ lastOp.key \in lastOp.before
    /\ Cardinality(DOMAIN cache) = max_size
    /\ max_size = 2
    /\ access_order[2] = lastOp.key

----------------------------------------------------------------------------
(* VectorStoreCache shared by threads: the process-wide _vector_store_cache *)
(* (vector_store.py:274) has no lock, so the statements of concurrent get,  *)
(* put and remove interleave.                                               *)

MaxCalls == 2

Threads == {"t1", "t2"}
RaceKeys == {"doc1", "doc2"}

IdleThread ==
    [pc |-> "idle", key |-> None, val |-> None, ret |-> None, calls |-> 0]

RaceInit ==
    /\ cache = EmptyMap
    /\ access_order = <<>>
    /\ max_size \in 1..MaxCapacity
    /\ clock = 0
    /\ lastAccess = EmptyMap
    /\ lastOp = [op |-> "none"]
    /\ thread = [t \in Threads |-> IdleThread]
    /\ QueryIdle
    /\ DurableIdle
    /\ ChunksIdle
    /\ DbIdle
    /\ SessionIdle

At(t, where) == thread[t].pc = where

Goto(t, where) == thread' = [thread EXCEPT ![t].pc = where]

Return(t, v) == thread' = [thread EXCEPT ![t].pc = "idle", ![t].ret = v]

Raise(t, e) == thread' = [thread EXCEPT ![t].pc = "failed", ![t].ret = e]

RaceFrame == UNCHANGED <<max_size, clock, lastAccess, lastOp>> /\ UNCHANGED otherThanCache

\* a thread calls get, put or remove
Call(t, op, k, v) ==
    /\ At(t, "idle")
    /\ thread[t].calls < MaxCalls
    /\ thread' = [thread EXCEPT ![t] =
                     [pc |-> op, key |-> k, val |-> v, ret |-> None,
                      calls |-> @.calls + 1]]
    /\ UNCHANGED <<cache, access_order>>
    /\ RaceFrame

\* vector_store.py:190 `if key in self.cache`, 195 `return None`
GetTest(t) ==
    /\ At(t, "get")
    /\ IF thread[t].key \in DOMAIN cache THEN Goto(t, "get_remove")
       ELSE Return(t, None)
    /\ UNCHANGED <<cache, access_order>>
    /\ RaceFrame

\* vector_store.py:192 `self.access_order.remove(key)`
GetRemove(t) ==
    /\ At(t, "get_remove")
    /\ IF Has(access_order, thread[t].key)
       THEN /\ access_order' = RemoveFirst(access_order, thread[t].key)
            /\ Goto(t, "get_append")
       ELSE /\ Raise(t, "ValueError")
            /\ UNCHANGED access_order
    /\ UNCHANGED cache
    /\ RaceFrame

\* vector_store.py:193 `self.access_order.append(key)`
GetAppend(t) ==
    /\ At(t, "get_append")
    /\ access_order' = Append(access_order, thread[t].key)
    /\ Goto(t, "get_return")
    /\ UNCHANGED cache
    /\ RaceFrame

\* vector_store.py:194 `return self.cache[key]`
GetReturn(t) ==
    /\ At(t, "get_return")
    /\ IF thread[t].key \in DOMAIN cache
       THEN Return(t, cache[thread[t].key])
       ELSE Raise(t, "KeyError")
    /\ UNCHANGED <<cache, access_order>>
    /\ RaceFrame

\* vector_store.py:200 `if key in self.cache`
PutTest(t) ==
    /\ At(t, "put")
    /\ IF thread[t].key \in DOMAIN cache THEN Goto(t, "put_remove")
       ELSE Goto(t, "put_set")
    /\ UNCHANGED <<cache, access_order>>
    /\ RaceFrame

\* vector_store.py:201 `self.access_order.remove(key)`
PutRemove(t) ==
    /\ At(t, "put_remove")
    /\ IF Has(access_order, thread[t].key)
       THEN /\ access_order' = RemoveFirst(access_order, thread[t].key)
            /\ Goto(t, "put_set")
       ELSE /\ Raise(t, "ValueError")
            /\ UNCHANGED access_order
    /\ UNCHANGED cache
    /\ RaceFrame

\* vector_store.py:204 `self.cache[key] = vector_store`
PutSet(t) ==
    /\ At(t, "put_set")
    /\ cache' = MapSet(cache, thread[t].key, thread[t].val)
    /\ Goto(t, "put_append")
    /\ UNCHANGED access_order
    /\ RaceFrame

\* vector_store.py:205 `self.access_order.append(key)`
PutAppend(t) ==
    /\ At(t, "put_append")
    /\ access_order' = Append(access_order, thread[t].key)
    /\ Goto(t, "put_while")
    /\ UNCHANGED cache
    /\ RaceFrame

\* vector_store.py:208 `while len(self.cache) > self.max_size`
PutWhile(t) ==
    /\ At(t, "put_while")
    /\ IF Cardinality(DOMAIN cache) > max_size THEN Goto(t, "put_pop")
       ELSE Return(t, None)
    /\ UNCHANGED <<cache, access_order>>
    /\ RaceFrame

\* vector_store.py:209 `oldest_key = self.access_order.pop(0)`
PutPop(t) ==
    /\ At(t, "put_pop")
    /\ IF access_order # <<>>
       THEN /\ access_order' = Tail(access_order)
            /\ thread' = [thread EXCEPT ![t].pc = "put_del",
                                        ![t].ret = Head(access_order)]
       ELSE /\ Raise(t, "IndexError")
            /\ UNCHANGED access_order
    /\ UNCHANGED cache
    /\ RaceFrame

\* vector_store.py:210 `del self.cache[oldest_key]`
PutDel(t) ==
    /\ At(t, "put_del")
    /\ IF thread[t].ret \in DOMAIN cache
       THEN /\ cache' = MapDel(cache, thread[t].ret)
            /\ thread' = [thread EXCEPT ![t].pc = "put_while", ![t].ret = None]
       ELSE /\ Raise(t, "KeyError")
            /\ UNCHANGED cache
    /\ UNCHANGED access_order
    /\ RaceFrame

\* vector_store.py:214 `if key in self.cache`, 218 `return False`
RemoveTest(t) ==
    /\ At(t, "remove")
    /\ IF thread[t].key \in DOMAIN cache THEN Goto(t, "remove_del")
       ELSE Return(t, "False")
    /\ UNCHANGED <<cache, access_order>>
    /\ RaceFrame

\* vector_store.py:215 `del self.cache[key]`
RemoveDel(t) ==
    /\ At(t, "remove_del")
    /\ IF thread[t].key \in DOMAIN cache
       THEN /\ cache' = MapDel(cache, thread[t].key)
            /\ Goto(t, "remove_order")
       ELSE /\ Raise(t, "KeyError")
            /\ UNCHANGED cache
    /\ UNCHANGED access_order
    /\ RaceFrame

\* vector_store.py:216-217 `self.access_order.remove(key)`, `return True`
RemoveOrder(t) ==
    /\ At(t, "remove_order")
    /\ IF Has(access_order, thread[t].key)
       THEN /\ access_order' = RemoveFirst(access_order, thread[t].key)
            /\ Return(t, "True")
       ELSE /\ Raise(t, "ValueError")
            /\ UNCHANGED access_order
    /\ UNCHANGED cache
    /\ RaceFrame

RaceNext ==
    \/ \E t \in Threads, k \in RaceKeys : Call(t, "get", k, None)
    \/ \E t \in Threads, k \in RaceKeys, v \in Stores : Call(t, "put", k, v)
    \/ \E t \in Threads, k \in RaceKeys : Call(t, "remove", k, None)
    \/ \E t \in Threads : GetTest(t)
    \/ \E t \in Threads : GetRemove(t)
    \/ \E t \in Threads : GetAppend(t)
    \/ \E t \in Threads : GetReturn(t)
    \/ \E t \in Threads : PutTest(t)
    \/ \E t \in Threads : PutRemove(t)
    \/ \E t \in Threads : PutSet(t)
    \/ \E t \in Threads : PutAppend(t)
    \/ \E t \in Threads : PutWhile(t)
    \/ \E t \in Threads : PutPop(t)
    \/ \E t \in Threads : PutDel(t)
    \/ \E t \in Threads : RemoveTest(t)
    \/ \E t \in Threads : RemoveDel(t)
    \/ \E t \in Threads : RemoveOrder(t)

SpecCacheRace == RaceInit /\ [][RaceNext]_vars

\* C7: under every interleaving of get, put and remove, a get returns absent
\* or one complete entry as a put wrote it, and no operation fails because the
\* map and the access order were out of step.
C7_NoTornReadNoFailure ==
    \A t \in Threads :
        /\ thread[t].pc # "failed"
        /\ (thread[t].pc = "idle" /\ thread[t].calls > 0)
               => thread[t].ret \in Stores \cup {None, "True", "False"}

\* ======================================================================
\* The durable tier (vector_cache.py) and the index builds
\* ======================================================================

MaxTime == 4800

MaxBuilds == 2

MaxKeys == 2

VECTOR_CACHE_TTL == 3600

SearchResultsTTL == 1800

Ticks == {1200, 2400}

Texts == {"T1", "T2"}

Chats == {"chatA", "chatB"}

Sessions2 == {"s1", "s2"}

IndexVersions == {1, 2}

SearchQueries == {"q1"}

SearchTypes == {"wikipedia", "combined"}

SearchResults == {<<>>, <<"r1">>}

\* create_chunks(text): the chunk list of a text.
CreateChunks(text) == <<"chunks", text>>

\* metadata built from the chunks
ChunkMetadata(chunks) == <<"metadata", chunks>>

\* Chroma.from_texts: the n-th vector store built, over these chunks.
BuildIndex(chunks, n) == [chunks |-> chunks, build |-> n]

\* vector_store.serialize_to_bytes() and FAISS.deserialize_from_bytes()
SerializeToBytes(vs) == [bytes_of |-> vs]

DeserializeFromBytes(b) == b.bytes_of

\* sha256(document_text)[:16]; distinct for the texts of the model.
GetDocumentHash(document_text) == <<"sha256_16", document_text>>

\* sha256(query)[:12]
QueryHash(query) == <<"sha256_12", query>>

GetCacheKey(doc_hash, cache_type) == <<"savin_ai", cache_type, doc_hash>>

SearchCacheKey(query, search_type) ==
    <<"savin_ai", "search", search_type, QueryHash(query)>>

Absent == [found |-> FALSE]

Found(v) == [found |-> TRUE, value |-> v]

\* A SETEX that keeps the key for twice the time asked.
MutSetExDoubleTTL(r, key, ttl, value, t) ==
    MapSet(r, key, [value |-> value, expires |-> t + 2 * ttl])

\* Redis SETEX key ttl value at time t.
SetEx(r, key, ttl, value, t) ==
    MapSet(r, key, [value |-> value, expires |-> t + ttl])

\* Redis: a key is gone once the time is past its expiry.
Live(r, key, t) == key \in DOMAIN r /\ t <= r[key].expires

\* Redis GET key at time t.
RedisGet(r, key, t) == IF Live(r, key, t) THEN Found(r[key].value) ELSE Absent

\* Redis drops the keys whose expiry has passed.
Expire(r, t) == [k \in {x \in DOMAIN r : t <= r[x].expires} |-> r[k]]

IdleWorker == [pc |-> "idle", text |-> None, chunks |-> None,
               vector_store |-> None, ret |-> None, corrupt |-> Absent]

NoCall == [op |-> "none"]

\* st.session_state before a chat is opened
NoChat == [current_chat_id |-> None, vectorstore |-> None]

DurableInit ==
    /\ enabled \in BOOLEAN
    /\ redis = EmptyMap
    /\ now = 0
    /\ vector_stores = EmptyMap
    /\ builds = 0
    /\ worker = [s \in Sessions2 |-> IdleWorker]
    /\ written = EmptyMap
    /\ lastCall = NoCall
    /\ ui = NoChat
    /\ QueryIdle
    /\ CacheIdle
    /\ ChunksIdle
    /\ DbIdle
    /\ SessionIdle

\* The ghost record of a successful SETEX of what the caller passed.
WriteRecord(value) == [value |-> value, at |-> now, read |-> FALSE]

\* The ghost record of the writes once key has been read and found: it marks
\* the key read last.
MarkRead(key, ret) ==
    IF ret.found /\ key \in DOMAIN written
    THEN [k \in DOMAIN written |-> [written[k] EXCEPT !.read = (k = key)]]
    ELSE written

\* VectorCacheManager.cache_vector_store: the store and the ghost record of
\* the writes after the call, and what the call returns.  fault names the
\* statement that raises, if any.
CacheVectorStore(document_text, vector_store, chunks, metadata, fault) ==
    LET doc_hash == GetDocumentHash(document_text)
        vector_key == GetCacheKey(doc_hash, "vectors")
        vector_data == [vector_store |-> SerializeToBytes(vector_store),
                        chunks |-> chunks,
                        metadata |-> metadata,
                        timestamp |-> now]
        text_key == GetCacheKey(doc_hash, "text")
        r1 == SetEx(redis, vector_key, VECTOR_CACHE_TTL, vector_data, now)
        w1 == MapSet(written, vector_key,
                     WriteRecord([vector_store |-> vector_store,
                                  chunks |-> chunks, metadata |-> metadata]))
        r2 == SetEx(r1, text_key, VECTOR_CACHE_TTL, document_text, now)
        w2 == MapSet(w1, text_key, WriteRecord(document_text))
    IN  IF ~enabled \/ fault = "serialize"
        THEN [redis |-> redis, written |-> written, ret |-> FALSE]
        ELSE IF fault = "setex_text"
        THEN [redis |-> r1, written |-> w1, ret |-> FALSE]
        ELSE [redis |-> r2, written |-> w2, ret |-> TRUE]

\* VectorCacheManager.get_cached_vector_store: what the call returns.
GetCachedVectorStore(document_text, fault) ==
    LET doc_hash == GetDocumentHash(document_text)
        vector_key == GetCacheKey(doc_hash, "vectors")
        cached_data == RedisGet(redis, vector_key, now)
    IN  IF ~enabled \/ fault \/ ~cached_data.found
        THEN Absent
        ELSE Found([vector_store |->
                        DeserializeFromBytes(cached_data.value.vector_store),
                    chunks |-> cached_data.value.chunks,
                    metadata |-> cached_data.value.metadata,
                    from_cache |-> TRUE])

\* The ghost record of a read of key that returned ret.
ReadRecord(key, ret, fault) ==
    [op |-> "read", key |-> key, ret |-> ret, fault |-> fault]

\* The ghost record of the lookup made by get_cached_vector_store.
IndexRead(document_text, fault) ==
    IF enabled
    THEN ReadRecord(GetCacheKey(GetDocumentHash(document_text), "vectors"),
                    GetCachedVectorStore(document_text, fault), fault)
    ELSE NoCall

\* The runs explored write at most MaxKeys distinct keys between two clears.
Room(keys) == Cardinality(DOMAIN written \cup keys) <= MaxKeys

\* A call of VectorCacheManager.cache_vector_store with the n-th vector
\* store built over the chunks of the text.
CacheVectorStoreCall(document_text, n, fault) ==
    /\ enabled
    /\ Room({GetCacheKey(GetDocumentHash(document_text), "vectors"),
             GetCacheKey(GetDocumentHash(document_text), "text")})
    /\ LET chunks == CreateChunks(document_text)
           c == CacheVectorStore(document_text, BuildIndex(chunks, n), chunks,
                                 ChunkMetadata(chunks), fault)
       IN  /\ redis' = c.redis
           /\ written' = c.written
    /\ lastCall' = NoCall
    /\ UNCHANGED <<enabled, ui, now, vector_stores, builds, worker>>
    /\ UNCHANGED otherThanDurable

\* A call of VectorCacheManager.get_cached_vector_store.
GetCachedVectorStoreCall(document_text, fault) ==
    /\ enabled
    /\ lastCall' = IndexRead(document_text, fault)
    /\ written' = MarkRead(GetCacheKey(GetDocumentHash(document_text),
                                       "vectors"),
                           GetCachedVectorStore(document_text, fault))
    /\ UNCHANGED <<enabled, ui, redis, now, vector_stores, builds, worker>>
    /\ UNCHANGED otherThanDurable

\* VectorCacheManager.cache_search_results
CacheSearchResults(query, search_type, results, fault) ==
    /\ enabled
    /\ Room({SearchCacheKey(query, search_type)})
    /\ LET cache_key == SearchCacheKey(query, search_type)
           cache_data == [results |-> results, timestamp |-> now,
                          query |-> query]
       IN  IF fault
           THEN UNCHANGED <<redis, written>>
           ELSE /\ redis' = SetEx(redis, cache_key, SearchResultsTTL,
                                  cache_data, now)
                /\ written' = MapSet(written, cache_key, WriteRecord(results))
    /\ lastCall' = NoCall
    /\ UNCHANGED <<enabled, ui, now, vector_stores, builds, worker>>
    /\ UNCHANGED otherThanDurable

\* VectorCacheManager.get_cached_search_results
GetCachedSearchResults(query, search_type, fault) ==
    /\ enabled
    /\ LET cache_key == SearchCacheKey(query, search_type)
           cached_data == RedisGet(redis, cache_key, now)
           ret == IF fault \/ ~cached_data.found
                  THEN Absent
                  ELSE Found(cached_data.value.results)
       IN  /\ lastCall' = ReadRecord(cache_key, ret, fault)
           /\ written' = MarkRead(cache_key, ret)
    /\ UNCHANGED <<enabled, ui, redis, now, vector_stores, builds, worker>>
    /\ UNCHANGED otherThanDurable

\* VectorCacheManager.clear_cache with its default pattern: every key of the
\* application is deleted.
ClearCache ==
    /\ enabled
    /\ redis # EmptyMap
    /\ redis' = EmptyMap
    /\ written' = EmptyMap
    /\ lastCall' = NoCall
    /\ UNCHANGED <<enabled, ui, now, vector_stores, builds, worker>>
    /\ UNCHANGED otherThanDurable

\* Time passes; Redis drops the keys that have expired.
Advance(d) ==
    /\ now + d <= MaxTime
    /\ now' = now + d
    /\ redis' = Expire(redis, now + d)
    /\ lastCall' = NoCall
    /\ UNCHANGED <<enabled, ui, vector_stores, builds, worker, written>>
    /\ UNCHANGED otherThanDurable

DurableNext ==
    \/ \E t \in Texts, n \in IndexVersions,
          f \in {"none", "serialize", "setex_text"} :
          CacheVectorStoreCall(t, n, f)
    \/ \E t \in Texts, f \in BOOLEAN : GetCachedVectorStoreCall(t, f)
    \/ \E q \in SearchQueries, st \in SearchTypes, r \in SearchResults,
          f \in BOOLEAN : CacheSearchResults(q, st, r, f)
    \/ \E q \in SearchQueries, st \in SearchTypes, f \in BOOLEAN :
          GetCachedSearchResults(q, st, f)
    \/ ClearCache
    \/ \E d \in Ticks : Advance(d)

SpecDurable == DurableInit /\ [][DurableNext]_vars

\* ----------------------------------------------------------------------
\* Index builds: get_cached_vector_store and process_document_upload
\* ----------------------------------------------------------------------

\* Whether a live index entry for the text is in the durable tier.
IndexCached(document_text) ==
    Live(redis, GetCacheKey(GetDocumentHash(document_text), "vectors"), now)

\* The live entry of the text that a lookup found and could not read, if any.
Unreadable(document_text, fault) ==
    IF enabled /\ fault /\ IndexCached(document_text)
    THEN Found(redis[GetCacheKey(GetDocumentHash(document_text), "vectors")])
    ELSE Absent

\* get_cached_vector_store(document_text, chunks), first statement: the
\* lookup.  A hit returns the cached vector store; a miss goes on to build.
Lookup(s, document_text, chunks, fault) ==
    /\ worker[s].pc = "idle"
    /\ LET cached_result == GetCachedVectorStore(document_text, fault)
       IN  /\ worker' = [worker EXCEPT ![s] =
                IF cached_result.found
                THEN [IdleWorker EXCEPT
                        !.ret = cached_result.value.vector_store]
                ELSE [pc |-> "build", text |-> document_text,
                      chunks |-> chunks, vector_store |-> None, ret |-> None,
                      corrupt |-> Unreadable(document_text, fault)]]
           /\ written' = MarkRead(GetCacheKey(GetDocumentHash(document_text),
                                              "vectors"), cached_result)
    /\ lastCall' = IndexRead(document_text, fault)
    /\ UNCHANGED <<enabled, ui, redis, now, vector_stores, builds>>
    /\ UNCHANGED otherThanDurable

\* The ghost record of an index build.
BuildRecord(path, document_text) ==
    [op |-> "build", path |-> path, text |-> document_text,
     cached |-> IndexCached(document_text)]

\* The ghost record of an index build that has returned its vector store.
ReturnRecord(path, document_text, vector_store, corrupt) ==
    [op |-> "returned", path |-> path, text |-> document_text,
     vector_store |-> vector_store, corrupt |-> corrupt]

\* get_cached_vector_store, second statement: get_vector_store(chunks) runs
\* the embedding model over the chunks; it may raise, and the exception
\* leaves the call.
Build(s, raises) ==
    /\ worker[s].pc = "build"
    /\ builds < MaxBuilds
    /\ builds' = builds + 1
    /\ lastCall' = BuildRecord("cache", worker[s].text)
    /\ worker' = [worker EXCEPT ![s] =
          IF raises
          THEN [IdleWorker EXCEPT !.ret = "raised"]
          ELSE [@ EXCEPT !.pc = "store",
                         !.vector_store = BuildIndex(worker[s].chunks,
                                                     builds + 1)]]
    /\ UNCHANGED <<enabled, ui, redis, now, vector_stores, written>>
    /\ UNCHANGED otherThanDurable

\* get_cached_vector_store, last statements: cache the new vector store and
\* return it.
Store(s, fault) ==
    /\ worker[s].pc = "store"
    /\ LET w == worker[s]
           c == CacheVectorStore(w.text, w.vector_store, w.chunks,
                                 ChunkMetadata(w.chunks), fault)
       IN  /\ redis' = c.redis
           /\ written' = c.written
           /\ worker' = [worker EXCEPT ![s] =
                            [IdleWorker EXCEPT !.ret = w.vector_store]]
           /\ lastCall' = ReturnRecord("cache", w.text, w.vector_store,
                                       w.corrupt)
    /\ UNCHANGED <<enabled, ui, now, vector_stores, builds>>
    /\ UNCHANGED otherThanDurable

\* The ghost record of an upload: a build, and whether it went through to the
\* end.
UploadRecord(document_text, vector_store, saved) ==
    [op |-> "build", path |-> "upload", text |-> document_text,
     cached |-> IndexCached(document_text), saved |-> saved,
     vector_store |-> vector_store]

\* MessageHandlers.process_document_upload for the chat the session shows:
\* chunk the text, build a vector store from the chunks and save it under the
\* chat id.  fault names the call that raises, if any; the handler catches
\* it and saves nothing more.
ProcessDocumentUpload(chat_id, text, fault) ==
    /\ chat_id = ui.current_chat_id
    /\ builds < MaxBuilds
    /\ builds' = builds + 1
    /\ LET chunks == CreateChunks(text)
           vector_store == BuildIndex(chunks, builds + 1)
       IN  /\ lastCall' = UploadRecord(text, vector_store, fault = "none")
           /\ vector_stores' =
                IF fault = "none"
                THEN MapSet(vector_stores, chat_id,
                            [vector_data |-> SerializeToBytes(vector_store),
                             chunks_data |-> chunks,
                             metadata_data |-> ChunkMetadata(chunks)])
                ELSE vector_stores
           /\ ui' = IF fault = "none"
                    THEN [ui EXCEPT !.vectorstore = vector_store]
                    ELSE ui
    /\ UNCHANGED <<enabled, redis, now, worker, written>>
    /\ UNCHANGED otherThanDurable

\* VectorStoreRepository.load_vector_store: the row of the chat with its
\* vector data unpickled, or absent when there is no row or when
\* unpickling or json.loads raises.
LoadVectorStore(chat_id, fault) ==
    IF chat_id \in DOMAIN vector_stores /\ ~fault
    THEN Found(<<vector_stores[chat_id].vector_data,
                 vector_stores[chat_id].chunks_data,
                 vector_stores[chat_id].metadata_data>>)
    ELSE Absent

\* ApplicationController._load_chat: open the chat and take its saved vector
\* data, if any, as the vector store of the session.
LoadChat(chat_id, fault) ==
    /\ LET vector_data == LoadVectorStore(chat_id, fault)
       IN  /\ ui' = [current_chat_id |-> chat_id,
                     vectorstore |-> IF vector_data.found
                                     THEN vector_data.value[1]
                                     ELSE None]
           /\ lastCall' = [op |-> "load", chat_id |-> chat_id,
                           found |-> vector_data.found,
                           corrupt |-> chat_id \in DOMAIN vector_stores /\ fault,
                           row |-> IF chat_id \in DOMAIN vector_stores
                                   THEN vector_stores[chat_id] ELSE None]
    /\ UNCHANGED <<enabled, redis, now, vector_stores, builds, worker, written>>
    /\ UNCHANGED otherThanDurable

BuildNext ==
    \/ \E s \in Sessions2, t \in Texts, f \in BOOLEAN :
          Lookup(s, t, CreateChunks(t), f)
    \/ \E s \in Sessions2, r \in BOOLEAN : Build(s, r)
    \/ \E s \in Sessions2, f \in {"none", "serialize", "setex_text"} :
          Store(s, f)
    \/ \E c \in Chats, t \in Texts, f \in {"none", "embed", "serialize"} :
          ProcessDocumentUpload(c, t, f)
    \/ \E c \in Chats, f \in BOOLEAN : LoadChat(c, f)
    \/ \E d \in Ticks : Advance(d)

SpecBuild == DurableInit /\ [][BuildNext]_vars

\* ----------------------------------------------------------------------
\* Claims about the durable tier and the index builds
\* ----------------------------------------------------------------------

\* The two sessions are both past the lookup of get_cached_vector_store for
\* the same text, each with a vector store of its own built.
BothBuilt(s1, s2) ==
    /\ s1 # s2
    /\ worker[s1].pc = "store"
    /\ worker[s2].pc = "store"
    /\ worker[s1].text = worker[s2].text

\* C6: concurrent index-build requests for the same content run the
\* embedding model once: no two requests in progress at the same time have
\* each built a vector store for the same text.
C6_SingleFlight == \A s1, s2 \in Sessions2 : ~BothBuilt(s1, s2)

\* The time to live the claim gives to a key: 1800 seconds for search
\* results, 3600 seconds for indexes.
TTLOf(key) == IF key[2] = "search" THEN 1800 ELSE 3600

\* The call just made read a key that had been written, and nothing raised
\* inside the read.
ReadOfWritten ==
    /\ lastCall.op = "read"
    /\ ~lastCall.fault
    /\ lastCall.key \in DOMAIN written

\* The read returned what the latest write of the key stored.
ReturnsStored ==
    LET w == written[lastCall.key]
    IN  /\ lastCall.ret.found
        /\ IF lastCall.key[2] = "search"
           THEN lastCall.ret.value = w.value
           ELSE /\ lastCall.ret.value.vector_store = w.value.vector_store
                /\ lastCall.ret.value.chunks = w.value.chunks
                /\ lastCall.ret.value.metadata = w.value.metadata

\* C9: a read of a key less than its time to live after the latest write of
\* the key returns what was written, and a read more than its time to live
\* after that write returns absent, whatever reads were made in between.
C9_TimeToLive ==
    ReadOfWritten =>
        LET age == now - written[lastCall.key].at
        IN  /\ age < TTLOf(lastCall.key) => ReturnsStored
            /\ age > TTLOf(lastCall.key) => lastCall.ret = Absent

\* A key that was written, then read and found, is read again after its time
\* to live has passed and is absent.
C9_Witness ==
    /\ ReadOfWritten
    /\ written[lastCall.key].read
    /\ now - written[lastCall.key].at > TTLOf(lastCall.key)
    /\ lastCall.ret = Absent

\* C10: an index is built for a text only when the durable tier holds no
\* live index entry for that text, and no two saved index entries are for the
\* same text.
C10_OneEntryPerText ==
    /\ lastCall.op = "build" => ~lastCall.cached
    /\ \A c1, c2 \in DOMAIN vector_stores :
          vector_stores[c1].chunks_data = vector_stores[c2].chunks_data
              => c1 = c2

\* An index build has just returned: get_cached_vector_store after a miss, or
\* an upload that went through.
BuildReturned ==
    \/ lastCall.op = "returned"
    \/ lastCall.op = "build" /\ lastCall.path = "upload" /\ lastCall.saved

\* The in-process LRU cache holds the vector store.
InProcessHolds(vs) == \E k \in DOMAIN cache : cache[k] = vs

\* A durable store holds the vector store: a live Redis entry of the text, or
\* a row of the vector_stores table.
DurableHolds(text, vs) ==
    \/ /\ IndexCached(text)
       /\ redis[GetCacheKey(GetDocumentHash(text), "vectors")].value.vector_store
             = SerializeToBytes(vs)
    \/ \E c \in DOMAIN vector_stores :
          vector_stores[c].vector_data = SerializeToBytes(vs)

\* C11: when an index build returns, the new index is in both tiers, the
\* in-process LRU cache and a durable store.
C11_WriteThrough ==
    BuildReturned =>
        /\ InProcessHolds(lastCall.vector_store)
        /\ DurableHolds(lastCall.text, lastCall.vector_store)

\* The in-process LRU cache was asked and did not have the key.
InProcessMissed == lastOp.op = "get" /\ lastOp.ret = None

\* The durable tier has just been asked for an index: the Redis read of
\* get_cached_vector_store, or the table read of _load_chat.
DurableAsked ==
    \/ lastCall.op = "read" /\ lastCall.key[2] = "vectors"
    \/ lastCall.op = "load"

\* C12: a lookup asks the durable tier only after the in-process tier
\* missed, rebuilds only after both tiers missed, and when a lookup that
\* rebuilt returns, both tiers hold the rebuilt index.
C12_MissCascade ==
    /\ DurableAsked => InProcessMissed
    /\ (lastCall.op = "build" /\ lastCall.path = "cache")
           => (InProcessMissed /\ ~lastCall.cached)
    /\ lastCall.op = "returned"
           => /\ InProcessHolds(lastCall.vector_store)
              /\ DurableHolds(lastCall.text, lastCall.vector_store)

\* The table read of _load_chat met a row it could not deserialize.
CorruptRowRead == lastCall.op = "load" /\ lastCall.corrupt

\* A lookup of get_cached_vector_store that met a live Redis entry it could
\* not deserialize has returned.
CorruptEntryLookupReturned == lastCall.op = "returned" /\ lastCall.corrupt.found

\* C13: a durable entry that cannot be deserialized on read is treated as a
\* miss, and once the lookup has returned the entry is no longer in the store:
\* it is gone or replaced by the rebuilt one, in Redis and in the
\* vector_stores table.
C13_CorruptEntryEvicted ==
    /\ CorruptRowRead =>
          /\ ~lastCall.found
          /\ \/ lastCall.chat_id \notin DOMAIN vector_stores
             \/ vector_stores[lastCall.chat_id] # lastCall.row
    /\ CorruptEntryLookupReturned =>
          LET key == GetCacheKey(GetDocumentHash(lastCall.text), "vectors")
          IN  \/ ~Live(redis, key, now)
              \/ redis[key] # lastCall.corrupt.value

\* The similarity search of _get_document_context was made and raised.
DocumentSearchFailed ==
    /\ RAGPath
    /\ session.has_document /\ session.agent_vector_store
    /\ retrieved.raises
    /\ pc # "start" /\ pc # "rag_document"

\* C14: when the vector search of a query fails, the failure is reported to
\* the caller as an error: the query does not go on from an empty context to
\* another evidence source or to a not-found answer.
C14_SearchFailureSurfaced ==
    DocumentSearchFailed => (pc = "done" /\ result.kind = "error")

\* The overlap ratio of the question's keywords with the text's keywords is
\* at least 0.2, that is one fifth.
RatioAtLeastFifth(t, q) ==
    LET k == Keywords(q)
    IN  k # {} /\ 5 * Cardinality(k \cap Keywords(t)) >= Cardinality(k)

\* StrictRetrievalQA.__call__ has applied the gate to the retrieved chunks.
GateApplied ==
    /\ QAPath
    /\ \E i \in 1..Len(stages) : stages[i] \in {"GATED_PASS", "GATED_FAIL"}

\* C15: the gate accepts a chunk exactly when the overlap ratio is at least
\* 0.2: each retrieved chunk passes the gate if and only if its ratio is at
\* least one fifth, and the context is empty if and only if no retrieved
\* chunk reaches that ratio.
C15_ThresholdInclusive ==
    GateApplied =>
        /\ \A i \in 1..Len(retrieved.docs) :
              VerifyContextRelevance(retrieved.docs[i].text, question)
                  <=> RatioAtLeastFifth(retrieved.docs[i].text, question)
        /\ (\E i \in 1..Len(stages) : stages[i] = "GATED_FAIL")
              <=> ~\E i \in 1..Len(retrieved.docs) :
                      RatioAtLeastFifth(retrieved.docs[i].text, question)

\* C16: the context that _build_validated_context hands to the language
\* model is never longer than 2000 characters.
C16_ContextWithinBudget ==
    \A i \in 1..Len(llmCalls) :
        llmCalls[i].source = "Document" /\ QAPath
            => llmCalls[i].context.len <= 2000

\* ----------------------------------------------------------------------
\* The context builder over longer retrievals
\* ----------------------------------------------------------------------

MaxContextDocs == 4

\* chunks of one document: four short ones and a long one about the tower,
\* and one about something else
ContextChunks ==
    { [text |-> <<"The", "Eiffel", "Tower", "is", "in", "Paris">>, trail |-> 0],
      [text |-> <<"Eiffel", "Tower", "1889">>, trail |-> 0],
      [text |-> <<"The", "Tower", "was", "completed">>, trail |-> 0],
      [text |-> <<"When", "Eiffel", "built">>, trail |-> 0],
      [text |-> <<"Eiffel", "Tower", "height">>, trail |-> 2100],
      [text |-> <<"Google", "quantum", "computing">>, trail |-> 0] }

\* the retriever returns up to MaxContextDocs different chunks
ContextDocSeqs ==
    UNION {{d \in [1..n -> ContextChunks] :
                \A i, j \in 1..n : d[i] = d[j] => i = j}
           : n \in 0..MaxContextDocs}

\* StrictRetrievalQA.__call__ after the retriever has returned: the state in
\* which _build_validated_context is called.
ContextInit ==
    /\ question \in {CleanQuestion(q) : q \in Questions}
    /\ session = [rag_agent |-> FALSE, has_document |-> TRUE,
                  agent_vector_store |-> FALSE, web_search_manager |-> FALSE]
    /\ retrieved \in {[raises |-> FALSE, docs |-> d] : d \in ContextDocSeqs}
    /\ wikiOutcome = [kind |-> "none"]
    /\ webOutcome = [kind |-> "none"]
    /\ pc = "RETRIEVED"
    /\ stages = <<"RECEIVED", "RETRIEVED">>
    /\ llmCalls = <<>>
    /\ context = EmptyContext
    /\ draft = <<>>
    /\ result = NoResult
    /\ consulted = <<>>
    /\ CacheIdle
    /\ DurableIdle
    /\ ChunksIdle
    /\ DbIdle
    /\ SessionIdle

SpecContext == ContextInit /\ [][QAGate]_vars

\* the retrieved chunks that pass the gate, in order
AcceptedChunks ==
    SelectSeq(retrieved.docs,
              LAMBDA d : VerifyContextRelevance(d.text, question))

\* Some text of an accepted chunk is not in the context: more chunks were
\* accepted than are used, or the chunks used are longer than the budget.
AcceptedTextLeftOut ==
    \/ Len(AcceptedChunks) > MaxContextChunks
    \/ JoinLen(AcceptedChunks) > MaxContextChars

\* C17: whenever text of a chunk that passed the gate is left out of the
\* context handed to the model, the context carries the truncation marker.
C17_TruncationMarked ==
    (QAPath /\ pc = "GATED_PASS" /\ AcceptedTextLeftOut) => context.marked

----------------------------------------------------------------------------
(* The order of the evidence sources. *)

SourceOrder == <<"Document", "Wikipedia", "Web">>

\* the sources the agent can query in this session, in SourceOrder
AvailableSources ==
    (IF session.has_document /\ session.agent_vector_store
     THEN <<"Document">> ELSE <<>>)
    \o (IF session.web_search_manager THEN <<"Wikipedia", "Web">> ELSE <<>>)

RAGAnswered == RAGPath /\ result.kind = "answer"

----------------------------------------------------------------------------
(* DocumentProcessor.create_chunks.  The splitter is library code; what it  *)
(* returns for the document is the input.  A chunk is a text; a token that *)
(* ends in a period closes a sentence, a token of NumberToks is digits.    *)

MaxRawChunks == 3
MaxChunkLimit == 2

NumberToks == {"12345678901234567890"}

PeriodToks == {"completed."}

\* sum(c.isalpha() for c in w)
LettersTok(w) ==
    IF w = WS \/ w \in NumberToks THEN 0
    ELSE IF w \in PeriodToks THEN Len(w) - 1
    ELSE Len(w)

RECURSIVE AlphaCount(_)
AlphaCount(t) ==
    IF t = <<>> THEN 0 ELSE LettersTok(Head(t)) + AlphaCount(Tail(t))

\* chunk.split()
Split(t) == SelectSeq(t, LAMBDA w : w # WS)

RECURSIVE Rep(_, _)
Rep(t, n) == IF n = 0 THEN <<>> ELSE t \o Rep(t, n - 1)

Prose == <<"architecture", "engineering", "construction">>

Figures == <<"12345678901234567890", "12345678901234567890",
             "12345678901234567890">>

RawChunks ==
    { Prose,
      <<"architecture", "engineering", "completed.">>,
      <<"12345678901234567890", "tower", "bridge", "arch">>,
      <<"architecture", "engineering", "completed.">> \o Figures,
      <<"tower", "bridge">>,
      <<"12345678901234567890", "12345678901234567890", "arch">>,
      <<"tower", "tower", "bridge", "arch", "completed.">>,
      Rep(Prose, 6) }

RawChunkSeqs == UNION {[1..n -> RawChunks] : n \in 0..MaxRawChunks}

\* DocumentProcessor._has_meaningful_content; every token but WS has an
\* alphanumeric character
HasMeaningfulContent(chunk) ==
    LET words == Split(chunk)
        meaningful_words == SelectSeq(words, LAMBDA w : Len(w) > 2)
    IN  /\ words # <<>>
        /\ Len(meaningful_words) >= 3
        \* alpha_ratio < 0.3 is 10 * letters < 3 * len(chunk)
        /\ ~(10 * AlphaCount(chunk) < 3 * TextLen(chunk))

\* A chunk as create_chunks returns it: the text of the raw chunk at
\* position pos, after f"[Previous context: ...{context}] {chunk}" when a
\* context was added.
Plain(pos, chunk) == [pos |-> pos, context |-> Absent, text |-> chunk]

Enhanced(pos, sentence, chunk) ==
    [pos |-> pos, context |-> Found(sentence), text |-> chunk]

\* "[Previous context: ..." and "] "
PrefixLen == 22
PrefixLetters == 15
SuffixLen == 2

\* len(chunk)
QLen(q) ==
    IF q.context.found
    THEN PrefixLen + TextLen(q.context.value) + SuffixLen + TextLen(q.text)
    ELSE TextLen(q.text)

\* sum(c.isalpha() for c in chunk)
QAlpha(q) ==
    IF q.context.found
    THEN PrefixLetters + AlphaCount(q.context.value) + AlphaCount(q.text)
    ELSE AlphaCount(q.text)

\* chunk.split()
QSplit(q) ==
    IF ~q.context.found THEN Split(q.text)
    ELSE LET c == Split(q.context.value)
             quoted ==
                 IF c = <<>> THEN <<"...]">>
                 ELSE IF Len(c) = 1 THEN <<"..." \o c[1] \o "]">>
                 ELSE <<"..." \o c[1]>> \o SubSeq(c, 2, Len(c) - 1)
                      \o <<c[Len(c)] \o "]">>
         IN  <<"[Previous", "context:">> \o quoted \o Split(q.text)

LastThree(qs) == SubSeq(qs, IF Len(qs) > 3 THEN Len(qs) - 2 ELSE 1, Len(qs))

\* DocumentProcessor._is_duplicate_chunk; similarity > 0.8 is
\* 5 * intersection > 4 * union
IsDuplicateChunk(chunk, existing_chunks) ==
    LET chunk_words == Words(Lower(chunk))
        recent == LastThree(existing_chunks)
    IN  \E k \in 1..Len(recent) :
           LET existing_words == Words(Lower(QSplit(recent[k])))
               intersection == Cardinality(chunk_words \cap existing_words)
               union == Cardinality(chunk_words \cup existing_words)
           IN  union > 0 /\ 5 * intersection > 4 * union

\* prev_chunk.split('. ')[-1].strip(), when the split gives several parts
LastSentence(prev_chunk) ==
    LET breaks == {i \in 1..(Len(prev_chunk) - 1) : prev_chunk[i] \in PeriodToks}
    IN  IF breaks = {} THEN Absent
        ELSE LET last == CHOOSE i \in breaks : \A j \in breaks : j <= i
             IN  Found(Strip(SubSeq(prev_chunk, last + 1, Len(prev_chunk))))

\* DocumentProcessor._enhance_chunk_context; index counts from 1
EnhanceChunkContext(chunk, all_chunks, index) ==
    IF TextLen(chunk) < 100 /\ index > 1
    THEN LET prev_chunk == Strip(all_chunks[index - 1])
             sentence == LastSentence(prev_chunk)
         IN  IF /\ prev_chunk # <<>>
                /\ TextLen(prev_chunk) > 50
                /\ sentence.found
                /\ TextLen(sentence.value) < 100
             THEN Enhanced(index, sentence.value, chunk)
             ELSE Plain(index, chunk)
    ELSE Plain(index, chunk)

\* DocumentProcessor._filter_and_enhance_chunks, from the i-th raw chunk on
RECURSIVE FilterFrom(_, _, _)
FilterFrom(chunks, i, kept) ==
    IF i > Len(chunks) THEN kept
    ELSE LET chunk == Strip(chunks[i])
         IN  IF \/ TextLen(chunk) < 30
                \/ ~HasMeaningfulContent(chunk)
                \/ IsDuplicateChunk(chunk, kept)
             THEN FilterFrom(chunks, i + 1, kept)
             ELSE FilterFrom(chunks, i + 1,
                             Append(kept, EnhanceChunkContext(chunk, chunks, i)))

FilterAndEnhanceChunks(chunks) == FilterFrom(chunks, 1, <<>>)

\* DocumentProcessor._score_chunk_quality for the chunk at `position`
\* (counted from 0) of `total_chunks`: the score is tenths / 10 +
\* unique / words
ScoreChunkQuality(q, position, total_chunks) ==
    LET length == QLen(q)
        words == QSplit(q)
    IN  [tenths |->
             (IF 200 <= length /\ length <= 600 THEN 10
              ELSE IF (100 <= length /\ length < 200)
                      \/ (600 < length /\ length <= 800) THEN 7
              ELSE 3)
             + (IF 10 * position < 7 * total_chunks THEN 3 ELSE 0)
             + (IF q.text # <<>> /\ q.text[Len(q.text)] \in PeriodToks
                THEN 2 ELSE 0),
         unique |-> Cardinality(Words(Lower(words))),
         words |-> Len(words)]

Diversity(score) == IF score.words = 0 THEN 0 ELSE score.unique

Weight(score) == IF score.words = 0 THEN 1 ELSE score.words

\* a.score > b.score
ScoreGreater(a, b) ==
    (a.tenths * Weight(a) + 10 * Diversity(a)) * Weight(b)
        > (b.tenths * Weight(b) + 10 * Diversity(b)) * Weight(a)

\* the two scores are sums of the same floating-point terms
SameTerms(a, b) ==
    /\ a.tenths = b.tenths
    /\ Diversity(a) * Weight(b) = Diversity(b) * Weight(a)

\* the first chunks are kept whatever their scores
MutSelectFirst(chunks, limit) ==
    {SubSeq(chunks, 1, IF Len(chunks) < limit THEN Len(chunks) ELSE limit)}

\* Two scores that are equal as fractions but are sums of different terms:
\* the floating-point sums are equal, or the rounding puts one of them first.
FloatTies == {"equal", "tenths", "diversity"}

\* a.score > b.score, for the floating-point sums the code compares
Outranks(a, b) ==
    \/ ScoreGreater(a, b)
    \/ /\ ~ScoreGreater(b, a)
       /\ ~SameTerms(a, b)
       /\ \/ float_ties = "tenths" /\ a.tenths > b.tenths
          \/ float_ties = "diversity" /\ a.tenths < b.tenths

\* a sort that is not stable: chunks of equal score come out in any order
MutSelectUnstable(chunks, limit) ==
    IF Len(chunks) <= limit THEN {chunks}
    ELSE LET n == Len(chunks)
             score == [i \in 1..n |-> ScoreChunkQuality(chunks[i], i - 1, n)]
             orders ==
                 {p \in [1..n -> 1..n] :
                     /\ \A i, j \in 1..n : p[i] = p[j] => i = j
                     /\ \A i, j \in 1..n :
                           i < j => ~Outranks(score[p[j]], score[p[i]])}
         IN  {[k \in 1..limit |-> chunks[p[k]]] : p \in orders}

\* DocumentProcessor._select_best_chunks: the list that sorting by score,
\* highest first, gives.  The sort is stable: chunks of equal score keep
\* their order.
SelectBestChunks(chunks, limit) ==
    IF Len(chunks) <= limit THEN {chunks}
    ELSE LET n == Len(chunks)
             score == [i \in 1..n |-> ScoreChunkQuality(chunks[i], i - 1, n)]
             orders ==
                 {p \in [1..n -> 1..n] :
                     /\ \A i, j \in 1..n : p[i] = p[j] => i = j
                     /\ \A i, j \in 1..n :
                           i < j =>
                              /\ ~Outranks(score[p[j]], score[p[i]])
                              /\ ~Outranks(score[p[i]], score[p[j]])
                                    => p[i] < p[j]}
         IN  {[k \in 1..limit |-> chunks[p[k]]] : p \in orders}

\* "" and whitespace-only texts
BlankTexts == {<<>>, <<WS>>, <<WS, WS>>}

\* the text a chunk list was split from
RECURSIVE Flatten(_)
Flatten(chunks) ==
    IF chunks = <<>> THEN <<>> ELSE Head(chunks) \o Flatten(Tail(chunks))

\* DocumentProcessingError, raised at document_processor.py:221
ChunkingFailed == [found |-> FALSE, error |-> "DocumentProcessingError"]

\* only the empty text counts as blank
MutBlankOnlyEmpty(text) == text = <<>>

\* document_processor.py:199: `not text or not text.strip()`
IsBlank(text) == text = <<>> \/ Strip(text) = <<>>

ChunksInit ==
    /\ raw_chunks \in RawChunkSeqs
    /\ source_text \in (IF raw_chunks = <<>> THEN BlankTexts
                        ELSE {Flatten(raw_chunks)})
    /\ split_raises \in BOOLEAN
    /\ max_chunks \in 1..MaxChunkLimit
    /\ float_ties \in FloatTies
    /\ quality_chunks = Absent
    /\ earlier_chunks = Absent
    /\ QueryIdle
    /\ CacheIdle
    /\ DurableIdle
    /\ DbIdle
    /\ SessionIdle

\* DocumentProcessor.create_chunks, document_processor.py:197-221; a
\* second call is made with the same text and configuration
DocumentProcessorCreateChunks ==
    /\ earlier_chunks = Absent
    /\ earlier_chunks' = quality_chunks
    /\ IF IsBlank(source_text)
       THEN quality_chunks' = Found(<<>>)
       ELSE IF split_raises
       THEN quality_chunks' = ChunkingFailed
       ELSE LET filtered == FilterAndEnhanceChunks(raw_chunks)
            IN  \E best \in SelectBestChunks(filtered, max_chunks) :
                   quality_chunks' = Found(best)
    /\ UNCHANGED <<source_text, split_raises, raw_chunks, max_chunks, float_ties>>
    /\ UNCHANGED otherThanChunks

SpecChunks == ChunksInit /\ [][DocumentProcessorCreateChunks]_vars

\* C19: every chunk create_chunks returns, context prefix included, has at
\* least 30 characters and at least 3 letters in every 10 characters.
C19_ReturnedChunksMeaningful ==
    quality_chunks.found =>
        \A k \in 1..Len(quality_chunks.value) :
            LET q == quality_chunks.value[k]
            IN  /\ QLen(q) >= 30
                /\ 10 * QAlpha(q) >= 3 * QLen(q)

\* C20: the chunks create_chunks returns are in the order of their position
\* in the source text.
C20_ReturnedInSourceOrder ==
    quality_chunks.found =>
        \A i, j \in 1..Len(quality_chunks.value) :
            i < j => quality_chunks.value[i].pos < quality_chunks.value[j].pos

\* the chunks that passed the filter, before the limit is applied
AcceptedQuality == FilterAndEnhanceChunks(raw_chunks)

\* the score of the i-th accepted chunk, as _select_best_chunks computes it
AcceptedScore(i) ==
    ScoreChunkQuality(AcceptedQuality[i], i - 1, Len(AcceptedQuality))

\* the accepted chunks that were returned, by their place among the accepted
KeptPlaces ==
    {i \in 1..Len(AcceptedQuality) :
        \E k \in 1..Len(quality_chunks.value) :
            quality_chunks.value[k] = AcceptedQuality[i]}

SelectionApplied ==
    quality_chunks.found /\ Len(AcceptedQuality) > max_chunks

\* C21: with more accepted chunks than MAX_CHUNKS, exactly MAX_CHUNKS of the
\* accepted chunks are returned and no discarded chunk scores strictly
\* higher than a kept one; otherwise every accepted chunk is returned.
C21_TopChunksKept ==
    quality_chunks.found =>
        IF Len(AcceptedQuality) > max_chunks
        THEN /\ Len(quality_chunks.value) = max_chunks
             /\ Cardinality(KeptPlaces) = max_chunks
             /\ \A k \in 1..Len(quality_chunks.value) :
                   \E i \in 1..Len(AcceptedQuality) :
                       quality_chunks.value[k] = AcceptedQuality[i]
             /\ \A i \in (1..Len(AcceptedQuality)) \ KeptPlaces :
                   \A j \in KeptPlaces :
                       ~ScoreGreater(AcceptedScore(i), AcceptedScore(j))
        ELSE quality_chunks.value = AcceptedQuality

\* the selection dropped a chunk that stands before a kept one and scores
\* strictly lower
C21_Witness ==
    /\ SelectionApplied
    /\ \E i \in (1..Len(AcceptedQuality)) \ KeptPlaces :
          \E j \in KeptPlaces :
              i < j /\ ScoreGreater(AcceptedScore(j), AcceptedScore(i))

TwoRuns == earlier_chunks # Absent

\* two accepted chunks have the same score
EqualScores ==
    \E i, j \in 1..Len(AcceptedQuality) :
        /\ i # j
        /\ ~Outranks(AcceptedScore(i), AcceptedScore(j))
        /\ ~Outranks(AcceptedScore(j), AcceptedScore(i))

C23_BlankTextNoChunks ==
    (source_text \in BlankTexts /\ quality_chunks # Absent) =>
        /\ quality_chunks = Found(<<>>)
        /\ TwoRuns => earlier_chunks = Found(<<>>)

C23_Witness ==
    /\ source_text = <<WS, WS>>
    /\ split_raises
    /\ quality_chunks = Found(<<>>)

----------------------------------------------------------------------------
(* The SQLite database behind the repositories: the tables chats, messages, *)
(* documents and vector_stores.  Chat and message ids are uuid4 strings in  *)
(* the code; here they are the numbers of the calls that made them.        *)

MaxChats == 2
MaxMessages == 2
MaxSeconds == 2

Titles == {"Notes"}

DocumentFields ==
    { [document_name |-> None, document_type |-> None, document_size |-> None],
      [document_name |-> "a.pdf", document_type |-> "pdf", document_size |-> "1024"] }

ChunkLists == {<<"c1">>, <<"c1", "c2">>}

\* CURRENT_TIMESTAMP: the wall clock, read in whole seconds
Seconds == 1..MaxSeconds

\* the ids create_chat has handed out so far
CreatedChats == 1..next_chat

NoDbCall == [op |-> "none"]

\* the rows of table t that belong to the chat
RowsOf(t, chat_id) == SelectSeq(t, LAMBDA r : r.chat_id = chat_id)

\* DELETE FROM t WHERE chat_id = ?
DeleteRows(t, chat_id) == SelectSeq(t, LAMBDA r : r.chat_id # chat_id)

\* database.py:66-79: a statement that breaks a foreign key raises
\* DatabaseError when the connection enforces foreign keys; no PRAGMA
\* foreign_keys is issued, so the build's default applies
BreaksForeignKey(chat_id) == foreign_keys /\ chat_id \notin DOMAIN chats

DatabaseInit ==
    /\ chats = <<>>
    /\ messages = <<>>
    /\ documents = <<>>
    /\ foreign_keys \in BOOLEAN
    /\ next_chat = 0
    /\ next_message = 0
    /\ lastDb = NoDbCall
    /\ QueryIdle
    /\ CacheIdle
    /\ DurableIdle
    /\ ChunksIdle
    /\ SessionIdle

\* ChatRepository.create_chat
CreateChat(title, fields) ==
    /\ next_chat < MaxChats
    /\ next_chat' = next_chat + 1
    /\ chats' = MapSet(chats, next_chat + 1,
                       [title |-> title,
                        document_name |-> fields.document_name,
                        document_type |-> fields.document_type,
                        document_size |-> fields.document_size,
                        total_chunks |-> 0,
                        is_processed |-> FALSE])
    /\ lastDb' = [op |-> "create_chat", chat_id |-> next_chat + 1,
                  title |-> title, fields |-> fields]
    /\ UNCHANGED <<messages, documents, foreign_keys, next_message, vector_stores>>
    /\ UNCHANGED otherThanDb

\* ChatRepository.get_chat_info
GetChatInfo(chat_id) ==
    /\ lastDb' = [op |-> "get_chat_info", chat_id |-> chat_id,
                  info |-> IF chat_id \in DOMAIN chats
                           THEN Found(chats[chat_id]) ELSE Absent]
    /\ UNCHANGED <<chats, messages, documents, foreign_keys, next_chat,
                   next_message, vector_stores>>
    /\ UNCHANGED otherThanDb

\* MessageRepository.add_message; `timestamp` is what CURRENT_TIMESTAMP gives
AddMessage(chat_id, content, timestamp) ==
    /\ next_message < MaxMessages
    /\ IF BreaksForeignKey(chat_id)
       THEN /\ lastDb' = [op |-> "add_message", raised |-> TRUE]
            /\ UNCHANGED <<messages, next_message>>
       ELSE /\ next_message' = next_message + 1
            /\ messages' = Append(messages,
                                  [id |-> next_message + 1, chat_id |-> chat_id,
                                   content |-> content, timestamp |-> timestamp])
            /\ lastDb' = [op |-> "add_message", raised |-> FALSE]
    /\ UNCHANGED <<chats, documents, foreign_keys, next_chat, vector_stores>>
    /\ UNCHANGED otherThanDb

\* ORDER BY timestamp ASC over the rows in rowid order: idx_messages_chat_id
\* and idx_messages_timestamp both hand equal timestamps back by rowid
OrderedByTimestamp(rows) ==
    LET n == Len(rows)
        p == CHOOSE q \in [1..n -> 1..n] :
                /\ \A i, j \in 1..n : q[i] = q[j] => i = j
                /\ \A i, j \in 1..n :
                      i < j => \/ rows[q[i]].timestamp < rows[q[j]].timestamp
                               \/ /\ rows[q[i]].timestamp = rows[q[j]].timestamp
                                  /\ q[i] < q[j]
    IN  [k \in 1..n |-> rows[p[k]]]

\* MessageRepository.get_chat_messages
GetChatMessages(chat_id) ==
    /\ lastDb' = [op |-> "get_chat_messages", chat_id |-> chat_id,
                  rows |-> OrderedByTimestamp(RowsOf(messages, chat_id))]
    /\ UNCHANGED <<chats, messages, documents, foreign_keys, next_chat,
                   next_message, vector_stores>>
    /\ UNCHANGED otherThanDb

\* ChatRepository.delete_chat: one DELETE on chats; the rows of the other
\* tables go only through ON DELETE CASCADE
DeleteChat(chat_id) ==
    /\ chats' = MapDel(chats, chat_id)
    /\ IF foreign_keys
       THEN /\ messages' = DeleteRows(messages, chat_id)
            /\ documents' = MapDel(documents, chat_id)
            /\ vector_stores' = MapDel(vector_stores, chat_id)
       ELSE UNCHANGED <<messages, documents, vector_stores>>
    /\ lastDb' = [op |-> "delete_chat", chat_id |-> chat_id,
                  deleted |-> chat_id \in DOMAIN chats]
    /\ UNCHANGED <<foreign_keys, next_chat, next_message>>
    /\ UNCHANGED otherThanDb

\* DocumentRepository.save_document_data
SaveDocumentData(chat_id, chunks) ==
    /\ IF BreaksForeignKey(chat_id)
       THEN UNCHANGED documents
       ELSE documents' = MapSet(documents, chat_id,
                                [original_text |-> "text",
                                 processed_chunks |-> chunks])
    /\ lastDb' = NoDbCall
    /\ UNCHANGED <<chats, messages, foreign_keys, next_chat, next_message,
                   vector_stores>>
    /\ UNCHANGED otherThanDb

\* DocumentRepository.remove_document
RemoveDocumentRows(chat_id) == MapDel(documents, chat_id)

RemoveDocument(chat_id) ==
    /\ documents' = RemoveDocumentRows(chat_id)
    /\ lastDb' = NoDbCall
    /\ UNCHANGED <<chats, messages, foreign_keys, next_chat, next_message,
                   vector_stores>>
    /\ UNCHANGED otherThanDb

\* the UPDATE of save_vector_store, database.py:350-354
MarkProcessed(chat_id, chunks) ==
    IF chat_id \in DOMAIN chats
    THEN [chats EXCEPT ![chat_id].is_processed = TRUE,
                       ![chat_id].total_chunks = Len(chunks)]
    ELSE chats

\* VectorStoreRepository.save_vector_store; fault: serialize_to_bytes raises
SaveVectorStore(chat_id, chunks, fault) ==
    /\ IF fault \/ BreaksForeignKey(chat_id)
       THEN UNCHANGED <<vector_stores, chats>>
       ELSE /\ vector_stores' =
                  MapSet(vector_stores, chat_id,
                         [vector_data |-> SerializeToBytes(BuildIndex(chunks, 1)),
                          chunks_data |-> chunks,
                          metadata_data |-> ChunkMetadata(chunks)])
            /\ chats' = MarkProcessed(chat_id, chunks)
    /\ lastDb' = NoDbCall
    /\ UNCHANGED <<messages, documents, foreign_keys, next_chat, next_message>>
    /\ UNCHANGED otherThanDb

\* VectorStoreRepository.delete_vector_store
DeleteVectorStore(chat_id) ==
    /\ vector_stores' = MapDel(vector_stores, chat_id)
    /\ lastDb' = NoDbCall
    /\ UNCHANGED <<chats, messages, documents, foreign_keys, next_chat,
                   next_message>>
    /\ UNCHANGED otherThanDb

\* MessageHandlers.clear_document on the current chat: both deletes, then
\* the removal message
ClearDocument(chat_id, timestamp) ==
    /\ chat_id \in DOMAIN chats
    /\ next_message < MaxMessages
    /\ documents' = RemoveDocumentRows(chat_id)
    /\ vector_stores' = MapDel(vector_stores, chat_id)
    /\ next_message' = next_message + 1
    /\ messages' = Append(messages,
                          [id |-> next_message + 1, chat_id |-> chat_id,
                           content |-> "Document removed!",
                           timestamp |-> timestamp])
    /\ lastDb' = [op |-> "clear_document", chat_id |-> chat_id]
    /\ UNCHANGED <<chats, foreign_keys, next_chat>>
    /\ UNCHANGED otherThanDb

DatabaseNext ==
    \/ \E t \in Titles, f \in DocumentFields : CreateChat(t, f)
    \/ \E c \in CreatedChats : GetChatInfo(c)
    \/ \E c \in CreatedChats, t \in Seconds : AddMessage(c, "hello", t)
    \/ \E c \in CreatedChats : GetChatMessages(c)
    \/ \E c \in CreatedChats : DeleteChat(c)
    \/ \E c \in CreatedChats : SaveDocumentData(c, <<"c1">>)
    \/ \E c \in CreatedChats : RemoveDocument(c)
    \/ \E c \in CreatedChats, k \in ChunkLists, f \in BOOLEAN : SaveVectorStore(c, k, f)
    \/ \E c \in CreatedChats : DeleteVectorStore(c)
    \/ \E c \in CreatedChats, t \in Seconds : ClearDocument(c, t)

SpecDatabase == DatabaseInit /\ [][DatabaseNext]_vars

\* C24: right after delete_chat(chat_id) no table holds a row of that chat.
C24_DeleteChatLeavesNoRows ==
    lastDb.op = "delete_chat" =>
        /\ lastDb.chat_id \notin DOMAIN chats
        /\ RowsOf(messages, lastDb.chat_id) = <<>>
        /\ lastDb.chat_id \notin DOMAIN documents
        /\ lastDb.chat_id \notin DOMAIN vector_stores

\* C25: get_chat_messages returns the chat's messages, one per add_message
\* call, in the order the calls were made; get_chat_info returns the title
\* and document fields the chat was created with.
C25_MessagesInOrderAdded ==
    /\ lastDb.op = "get_chat_messages" =>
          lastDb.rows = RowsOf(messages, lastDb.chat_id)
    /\ lastDb.op = "create_chat" =>
          /\ chats[lastDb.chat_id].title = lastDb.title
          /\ chats[lastDb.chat_id].document_name = lastDb.fields.document_name

\* C29: a chat reads processed, with total_chunks the stored chunk count,
\* exactly when it has a vector_stores row; without a row it reads not
\* processed with zero chunks.
C29_ProcessedIffVectorStore ==
    \A c \in DOMAIN chats :
        IF c \in DOMAIN vector_stores
        THEN /\ chats[c].is_processed
             /\ chats[c].total_chunks = Len(vector_stores[c].chunks_data)
        ELSE /\ ~chats[c].is_processed
             /\ chats[c].total_chunks = 0

----------------------------------------------------------------------------
(* One browser session: st.session_state, the MessageHandlers object kept  *)
(* in it across reruns, and the vector_stores table.  A value that can be  *)
(* None is Absent or Found(v).                                             *)

\* ApplicationController._initialize_session_state
SessionDefaults ==
    [current_chat_id |-> None, vectorstore |-> Absent,
     conversation |-> Absent, processing |-> FALSE]

\* MessageHandlers._initialize_rag_agent: an agent over the vector store the
\* session holds at this moment, or None when create_rag_agent raises
InitializeRagAgent(vectorstore, raises) ==
    IF raises THEN Absent ELSE Found([vector_store |-> vectorstore])

\* the vector_stores row save_vector_store writes
VectorStoreRow(vector_store, chunks) ==
    [vector_data |-> SerializeToBytes(vector_store),
     chunks_data |-> chunks,
     metadata_data |-> ChunkMetadata(chunks)]

SessionInit ==
    /\ session_state = SessionDefaults
    /\ rag_agent \in {InitializeRagAgent(Absent, r) : r \in BOOLEAN}
    /\ upload = "idle"
    /\ enabled = FALSE
    /\ redis = EmptyMap
    /\ now = 0
    /\ vector_stores = EmptyMap
    /\ builds = 0
    /\ worker = [s \in Sessions2 |-> IdleWorker]
    /\ written = EmptyMap
    /\ lastCall = NoCall
    /\ ui = NoChat
    /\ QueryIdle
    /\ CacheIdle
    /\ ChunksIdle
    /\ DbIdle

sessionFrame == <<enabled, redis, now, worker, written, ui, queryVars,
                  cacheVars, chunkVars, dbVars>>

\* ApplicationController._load_chat; corrupt: unpickling the row raises,
\* chain_raises: create_conversation_chain raises
ControllerLoadChat(chat_id, corrupt, chain_raises) ==
    /\ upload = "idle"
    /\ LET vector_data == LoadVectorStore(chat_id, corrupt)
       IN  session_state' =
             IF vector_data.found
             THEN [session_state EXCEPT
                     !.current_chat_id = chat_id,
                     !.vectorstore = Found(vector_data.value[1]),
                     !.conversation = IF chain_raises THEN @
                                      ELSE Found(vector_data.value[1])]
             ELSE [session_state EXCEPT
                     !.current_chat_id = chat_id,
                     !.vectorstore = Absent,
                     !.conversation = Absent]
    /\ lastCall' = [op |-> "load_chat"]
    /\ UNCHANGED <<rag_agent, upload, vector_stores, builds>>
    /\ UNCHANGED sessionFrame

\* ApplicationController._create_new_chat: the new chat has no rows yet
ControllerCreateNewChat(chat_id) ==
    /\ upload = "idle"
    /\ chat_id # session_state.current_chat_id
    /\ chat_id \notin DOMAIN vector_stores
    /\ session_state' = [session_state EXCEPT
                           !.current_chat_id = chat_id,
                           !.vectorstore = Absent,
                           !.conversation = Absent]
    /\ lastCall' = [op |-> "new_chat"]
    /\ UNCHANGED <<rag_agent, upload, vector_stores, builds>>
    /\ UNCHANGED sessionFrame

\* A finally clause that leaves the flag as it is.
MutFinallyKeepsFlag(state) == state

\* process_document_upload, the finally clause
Finally(state) == [state EXCEPT !.processing = FALSE]

\* MessageHandlers.process_document_upload is called: it returns at once
\* while the flag is set, and sets the flag otherwise.  The page offers the
\* uploader only while the session holds no vector store.
UploadCalled ==
    /\ session_state.current_chat_id # None
    /\ IF session_state.processing
       THEN /\ lastCall' = [op |-> "upload", ignored |-> TRUE]
            /\ UNCHANGED <<session_state, upload>>
       ELSE /\ upload = "idle"
            /\ ~session_state.vectorstore.found
            /\ builds < MaxBuilds
            /\ session_state' = [session_state EXCEPT !.processing = TRUE]
            /\ upload' = "running"
            /\ lastCall' = [op |-> "upload", ignored |-> FALSE]
    /\ UNCHANGED <<rag_agent, vector_stores, builds>>
    /\ UNCHANGED sessionFrame

\* The body of process_document_upload runs to its end.  fault names where
\* it raises: "early" before save_vector_store has written, "chain" in
\* create_conversation_chain, "late" after the agent was re-initialized,
\* "none" nowhere.  The except clauses and the finally clause follow.
UploadFinished(text, fault, agent_raises) ==
    /\ upload = "running"
    /\ upload' = "idle"
    /\ LET chat_id == session_state.current_chat_id
           chunks == CreateChunks(text)
           vector_store == BuildIndex(chunks, builds + 1)
       IN  IF fault = "early"
           THEN /\ session_state' = Finally(session_state)
                /\ UNCHANGED <<rag_agent, vector_stores, builds>>
           ELSE /\ builds' = builds + 1
                /\ vector_stores' = MapSet(vector_stores, chat_id,
                                           VectorStoreRow(vector_store, chunks))
                /\ IF fault = "chain"
                   THEN /\ session_state' =
                             Finally([session_state EXCEPT
                                        !.vectorstore = Found(vector_store)])
                        /\ UNCHANGED rag_agent
                   ELSE /\ session_state' =
                             Finally([session_state EXCEPT
                                        !.vectorstore = Found(vector_store),
                                        !.conversation = Found(vector_store)])
                        /\ rag_agent' = InitializeRagAgent(Found(vector_store),
                                                           agent_raises)
    /\ lastCall' = [op |-> "upload_finished", fault |-> fault]
    /\ UNCHANGED sessionFrame

\* MessageHandlers.process_user_message, as far as the choice of the vector
\* store goes.  has_document is what the page computed for this run.
UserMessageProcessed(agent_raises) ==
    /\ upload = "idle"
    /\ session_state.current_chat_id # None
    /\ LET has_document == session_state.vectorstore.found
           agent == IF rag_agent.found THEN rag_agent
                    ELSE InitializeRagAgent(session_state.vectorstore,
                                            agent_raises)
           document_branch == has_document /\ session_state.conversation.found
       IN  /\ rag_agent' = agent
           /\ lastCall' =
                [op |-> "user_message",
                 has_document |-> has_document,
                 current |-> session_state.vectorstore,
                 searched |-> IF ~document_branch THEN Absent
                              ELSE IF agent.found THEN agent.value.vector_store
                              ELSE session_state.conversation]
    /\ UNCHANGED <<session_state, upload, vector_stores, builds>>
    /\ UNCHANGED sessionFrame

\* MessageHandlers.clear_document; raises: a repository call raises and the
\* session is left as it was
ClearLoadedDocument(raises) ==
    /\ upload = "idle"
    /\ session_state.current_chat_id # None
    /\ IF raises
       THEN UNCHANGED <<session_state, vector_stores>>
       ELSE /\ vector_stores' = MapDel(vector_stores,
                                       session_state.current_chat_id)
            /\ session_state' = [session_state EXCEPT
                                   !.vectorstore = Absent,
                                   !.conversation = Absent]
    /\ lastCall' = [op |-> "clear_document"]
    /\ UNCHANGED <<rag_agent, upload, builds>>
    /\ UNCHANGED sessionFrame

SessionNext ==
    \/ \E c \in Chats, k, r \in BOOLEAN : ControllerLoadChat(c, k, r)
    \/ \E c \in Chats : ControllerCreateNewChat(c)
    \/ UploadCalled
    \/ \E t \in Texts, f \in {"none", "early", "chain", "late"},
          r \in BOOLEAN : UploadFinished(t, f, r)
    \/ \E r \in BOOLEAN : UserMessageProcessed(r)
    \/ \E r \in BOOLEAN : ClearLoadedDocument(r)

SpecSession == SessionInit /\ [][SessionNext]_vars

\* The index behind a vector store value, whether it is held as an object or
\* as the bytes load_vector_store hands back.
IndexOf(v) == IF "bytes_of" \in DOMAIN v THEN DeserializeFromBytes(v) ELSE v

\* C26: when a user message is processed with a document present, the
\* vector store searched is the session's current vectorstore.
C26_SearchesCurrentVectorStore ==
    (lastCall.op = "user_message" /\ lastCall.has_document) =>
        /\ lastCall.searched.found
        /\ IndexOf(lastCall.searched.value) = IndexOf(lastCall.current.value)

\* A call of process_document_upload that found the flag set.
IgnoredUpload ==
    /\ session_state.processing
    /\ lastCall'.op = "upload"
    /\ lastCall'.ignored

\* C28: a call of process_document_upload made while the processing flag is
\* True changes nothing, and whenever process_document_upload is not running
\* the flag is False, however the last run ended.
C28_OneUploadAtATime ==
    /\ [](upload = "idle" => ~session_state.processing)
    /\ [][IgnoredUpload =>
            UNCHANGED <<session_state, rag_agent, vector_stores, builds, upload>>]_vars

C28_Witness ==
    /\ lastCall.op = "upload_finished"
    /\ lastCall.fault = "early"
    /\ upload = "idle"
    /\ ~session_state.processing

----------------------------------------------------------------------------
(* get_cached_web_search: the cached wrapper around WebSearchManager       *)

\* Python truth of a value that is None or a list: `if cached_results:`
Truthy(cached_results) ==
    cached_results.found /\ cached_results.value # <<>>

\* VectorCacheManager.get_cached_search_results as a value: None when the
\* cache is off, the key is not live or the read raises
CachedSearchResults(query, search_type, fault) ==
    LET cached_data == RedisGet(redis, SearchCacheKey(query, search_type), now)
    IN  IF ~enabled \/ fault \/ ~cached_data.found
        THEN Absent
        ELSE Found(cached_data.value.results)

\* get_cached_web_search(query, search_type).  results is what the external
\* search returns if it is made; read_fault and write_fault: the Redis read
\* or write raises inside the cache manager
GetCachedWebSearch(query, search_type, results, read_fault, write_fault) ==
    LET cache_key == SearchCacheKey(query, search_type)
        cached_results == CachedSearchResults(query, search_type, read_fault)
        before == IF cache_key \in DOMAIN written
                  THEN Found(written[cache_key]) ELSE Absent
    IN  /\ IF Truthy(cached_results)
           THEN /\ lastCall' = [op |-> "web_search", key |-> cache_key,
                                before |-> before, read_fault |-> read_fault,
                                searched |-> FALSE,
                                ret |-> cached_results.value]
                /\ UNCHANGED <<redis, written>>
           ELSE /\ lastCall' = [op |-> "web_search", key |-> cache_key,
                                before |-> before, read_fault |-> read_fault,
                                searched |-> TRUE, ret |-> results]
                /\ IF enabled /\ ~write_fault
                   THEN /\ redis' = SetEx(redis, cache_key, SearchResultsTTL,
                                          [results |-> results,
                                           timestamp |-> now, query |-> query],
                                          now)
                        /\ written' = MapSet(written, cache_key,
                                             WriteRecord(results))
                   ELSE UNCHANGED <<redis, written>>
        /\ UNCHANGED <<enabled, ui, now, vector_stores, builds, worker>>
        /\ UNCHANGED otherThanDurable

WebSearchNext ==
    \/ \E q \in SearchQueries, st \in SearchTypes, r \in SearchResults,
          rf, wf \in BOOLEAN : GetCachedWebSearch(q, st, r, rf, wf)
    \/ \E d \in Ticks : Advance(d)

SpecWebSearch == DurableInit /\ [][WebSearchNext]_vars

\* C30: a call of get_cached_web_search made less than 30 minutes after a
\* call for the same query and type stored its results returns those results
\* and makes no external search, whatever the results were.
C30_SecondCallFromCache ==
    ( /\ lastCall.op = "web_search"
      /\ lastCall.before.found
      /\ ~lastCall.read_fault
      /\ now - lastCall.before.value.at < SearchResultsTTL ) =>
        /\ ~lastCall.searched
        /\ lastCall.ret = lastCall.before.value.value

====
